---- MODULE Spec2Model ----
(***************************************************************************)
(* WatchGraph: compliance mapping and evidence lifecycle (src/app.py,      *)
(* src/models.py, src/s3_service.py, src/seed_requirements.py).            *)
(*                                                                         *)
(* The relational store is the four tables of models.py; the blob store is *)
(* the S3 bucket.  Every HTTP handler runs in its own SQLAlchemy session   *)
(* (database.get_db), so a handler is a sequence of steps, one per point   *)
(* at which it talks to the store: a step is a query, a commit or an S3    *)
(* call together with the Python code up to the next such point.           *)
(***************************************************************************)
EXTENDS Integers, Sequences, FiniteSets, TLC

VARIABLES
    requirements,   \* table compliance_requirements: sequence of rows
    systems,        \* table ai_systems: id -> row
    mappings,       \* table requirement_mappings: id -> row
    evidence,       \* table evidence: id -> row
    blobs,          \* the S3 bucket: key -> stored object
    nextId,         \* the ids the uuid4 defaults hand out next, per table
    now,            \* datetime.utcnow(), in seconds
    req,            \* per worker: the request it is handling and where it is
    resp,           \* the response sent last
    hist            \* per mapping: what the status-update calls so far asked for

vars == <<requirements, systems, mappings, evidence, blobs, nextId, now, req, resp, hist>>

db == <<requirements, systems, mappings, evidence>>

----------------------------------------------------------------------------
(* Bounds of the model *)

MaxSystems == 2         \* systems registered in one behaviour
MaxEvidence == 2        \* evidence rows inserted in one behaviour
MaxUploads == 1         \* of them, in a behaviour of Spec
MaxTime == 1            \* seconds the clock moves on in one behaviour
NumWorkers == 2         \* requests that can be in flight together

Workers == 1..NumWorkers

----------------------------------------------------------------------------
(* Optional values: None, or Some(x) *)

None == <<>>
Some(x) == <<x>>
IsSome(o) == o # None
Get(o) == o[1]

In(x, list) == \E i \in 1..Len(list) : list[i] = x

RECURSIVE SetToSeq(_)
SetToSeq(S) ==
    IF S = {} THEN <<>>
    ELSE LET x == CHOOSE y \in S : \A z \in S : y <= z
         IN  <<x>> \o SetToSeq(S \ {x})

Restrict(f, S) == [x \in S |-> f[x]]

----------------------------------------------------------------------------
(* models.py: the enumerations *)

RiskCategory == {"unacceptable", "high", "limited", "minimal"}

ComplianceStatus == {"not_started", "in_progress", "completed", "non_compliant"}

EvidenceStatus == {"current", "expiring_soon", "expired", "archived"}

NOT_STARTED == "not_started"

CURRENT == "current"

(* models.py: a RequirementMapping row as the column defaults leave it *)
RequirementMapping(ai_system_id, requirement_id, status) ==
    [ai_system_id |-> ai_system_id, requirement_id |-> requirement_id,
     status |-> status, notes |-> None, updated_by |-> None]

(* models.py: an AISystem row *)
AISystem(risk_category, organization) ==
    [risk_category |-> risk_category, organization |-> organization]

----------------------------------------------------------------------------
(* seed_requirements.py: the catalog.  The seed list has 25 rows of three  *)
(* kinds: applies_to ["high"] (22 rows), ["high", "limited"] (1 row) and   *)
(* ["limited"] (2 rows).  SeedRequirements keeps one row of each kind, in  *)
(* the list's order.  The other catalogs are tables the same code can be   *)
(* run against: WideCatalog gives a "high" system four mappings and a      *)
(* "limited" system three; Catalogs is the family SpecAssign starts from.  *)

ComplianceRequirement(id, applies_to) == [id |-> id, applies_to |-> applies_to]

SeedRows(lists) == [i \in 1..Len(lists) |-> ComplianceRequirement(i, lists[i])]

SeedRequirements == SeedRows(<< <<"high">>, <<"high", "limited">>, <<"limited">> >>)

WideCatalog ==
    SeedRows(<< <<"high">>, <<"high", "limited">>, <<"high", "limited">>,
                <<"limited", "high">> >>)

Catalogs ==
    { <<>>,
      SeedRequirements,
      SeedRows(<< <<"minimal", "unacceptable">>, <<"high">>, <<"high">> >>),
      SeedRows(<< <<"unacceptable", "high", "limited", "minimal">>, <<"limited">> >>) }

----------------------------------------------------------------------------
(* Requests and responses *)

Idle == [op |-> "idle"]

IsIdle(p) == req[p].op = "idle"

At(p, op, pc) == req[p].op = op /\ req[p].pc = pc

(* FastAPI sends one response per request.  arg is the request as it was   *)
(* received, kind the outcome (OK, or the error taxonomy), body the JSON    *)
(* returned                                                                *)
Respond(p, op, kind, arg, body) ==
    /\ resp' = [op |-> op, kind |-> kind, arg |-> arg, body |-> body]
    /\ req' = [req EXCEPT ![p] = Idle]

NoBody == [detail |-> "none"]

(* db.query(Model).filter(Model.id == id).first() *)
first_by_id(rows, id) == IF id \in DOMAIN rows THEN Some(rows[id]) ELSE None

----------------------------------------------------------------------------
(* create_ai_system, app.py 138-193 *)

(* mutant: the filter on the risk category is left out *)
applicable_requirements_unfiltered(catalog, risk_category) == catalog

(* app.py 165-170: the catalog rows whose applies_to list holds the category *)
applicable_requirements(catalog, risk_category) ==
    SelectSeq(catalog, LAMBDA requirement : In(risk_category, requirement.applies_to))

(* mutant: the loop runs twice over the applicable requirements *)
assigned_mappings_twice(catalog, system_id, risk_category, firstId) ==
    LET app == applicable_requirements(catalog, risk_category)
        twice == app \o app
    IN  [id \in firstId..(firstId + Len(twice) - 1) |->
            RequirementMapping(system_id, twice[id - firstId + 1].id, NOT_STARTED)]

(* app.py 168-177: the mappings the loop adds, in catalog order; ids are   *)
(* the uuid4 defaults, handed out from firstId                             *)
assigned_mappings(catalog, system_id, risk_category, firstId) ==
    LET app == applicable_requirements(catalog, risk_category)
    IN  [id \in firstId..(firstId + Len(app) - 1) |->
            RequirementMapping(system_id, app[id - firstId + 1].id, NOT_STARTED)]

(* app.py 29 and 34: pydantic rejects a risk_category outside the enum *)
create_ai_system_invalid(p, risk_category) ==
    /\ IsIdle(p)
    /\ risk_category \notin RiskCategory
    /\ Respond(p, "create_ai_system", "Validation", [risk_category |-> risk_category], NoBody)
    /\ UNCHANGED <<requirements, systems, mappings, evidence, blobs, nextId, now, hist>>

(* app.py 151-162: the system row is added and committed on its own *)
create_ai_system_add(p, risk_category, organization) ==
    /\ IsIdle(p)
    /\ risk_category \in RiskCategory
    /\ nextId.system <= MaxSystems
    /\ systems' = systems @@ (nextId.system :> AISystem(risk_category, organization))
    /\ nextId' = [nextId EXCEPT !.system = @ + 1]
    /\ req' = [req EXCEPT ![p] = [op |-> "create_ai_system", pc |-> "assign",
                                  system_id |-> nextId.system,
                                  risk_category |-> risk_category]]
    /\ UNCHANGED <<requirements, mappings, evidence, blobs, now, resp, hist>>

(* app.py 160-161: the first commit raises; nothing was written *)
create_ai_system_add_fail(p, risk_category) ==
    /\ IsIdle(p)
    /\ risk_category \in RiskCategory
    /\ nextId.system <= MaxSystems
    /\ Respond(p, "create_ai_system", "ServerError", [risk_category |-> risk_category], NoBody)
    /\ UNCHANGED <<requirements, systems, mappings, evidence, blobs, nextId, now, hist>>

(* app.py 165-193: the catalog is read, one mapping is added per applicable *)
(* requirement, and the second commit writes them                          *)
create_ai_system_assign(p) ==
    /\ At(p, "create_ai_system", "assign")
    /\ LET new == assigned_mappings(requirements, req[p].system_id,
                                    req[p].risk_category, nextId.mapping)
       IN  /\ mappings' = mappings @@ new
           /\ hist' = hist @@ [id \in DOMAIN new |->
                                  [status |-> None, notes |-> None, updated_by |-> None]]
           /\ nextId' = [nextId EXCEPT !.mapping = @ + Cardinality(DOMAIN new)]
           /\ Respond(p, "create_ai_system", "OK",
                      [risk_category |-> req[p].risk_category],
                      [id |-> req[p].system_id, requirements_assigned |-> Cardinality(DOMAIN new)])
    /\ UNCHANGED <<requirements, systems, evidence, blobs, now>>

(* app.py 165 or 179: the catalog query or the second commit raises; the   *)
(* session is closed (database.py 27-29) and its pending mappings are lost *)
create_ai_system_assign_fail(p) ==
    /\ At(p, "create_ai_system", "assign")
    /\ Respond(p, "create_ai_system", "ServerError",
               [risk_category |-> req[p].risk_category], NoBody)
    /\ UNCHANGED <<requirements, systems, mappings, evidence, blobs, nextId, now, hist>>

----------------------------------------------------------------------------
(* update_requirement_status, app.py 335-377 *)

(* mutant: notes and updated_by are assigned whether given or not *)
apply_status_update_reset(loaded, status, notes, updated_by) ==
    [loaded EXCEPT !.status = status, !.notes = notes, !.updated_by = updated_by]

(* mutant: a completed or non-compliant mapping is not reopened *)
apply_status_update_forward(loaded, status, notes, updated_by) ==
    [loaded EXCEPT !.status = IF @ \in {"completed", "non_compliant"}
                                 /\ status \in {"not_started", "in_progress"}
                              THEN @ ELSE status,
                   !.notes = IF notes # None THEN notes ELSE @,
                   !.updated_by = IF updated_by # None THEN updated_by ELSE @]

(* app.py 349-355: the assignments made on the loaded row *)
apply_status_update(loaded, status, notes, updated_by) ==
    [loaded EXCEPT !.status = status,
                   !.notes = IF notes # None THEN notes ELSE @,
                   !.updated_by = IF updated_by # None THEN updated_by ELSE @]

(* app.py 357: the flush writes the columns whose value differs from the   *)
(* loaded one (SQLAlchemy's unit of work), into the row as it is stored    *)
flushed_mapping(row, loaded, mapping) ==
    [c \in DOMAIN row |-> IF mapping[c] # loaded[c] THEN mapping[c] ELSE row[c]]

(* hist: what the calls on one mapping have asked for so far: the status   *)
(* of the last call, the notes and the updater of the last call that gave  *)
(* them                                                                    *)
record_call(h, status, notes, updated_by) ==
    [status |-> Some(status),
     notes |-> IF notes # None THEN notes ELSE h.notes,
     updated_by |-> IF updated_by # None THEN updated_by ELSE h.updated_by]

(* mutant: an update of a missing mapping creates the row *)
update_requirement_status_upsert(p, mapping_id, status, notes, updated_by) ==
    LET update == [mapping_id |-> mapping_id, status |-> status, notes |-> notes,
                   updated_by |-> updated_by]
        row == apply_status_update(RequirementMapping(0, 0, NOT_STARTED), status, notes,
                                   updated_by)
    IN
    /\ IsIdle(p)
    /\ mappings' = (mapping_id :> row) @@ mappings
    /\ hist' = (mapping_id :> record_call([status |-> None, notes |-> None,
                                            updated_by |-> None],
                                           status, notes, updated_by)) @@ hist
    /\ Respond(p, "update_requirement_status",
               IF mapping_id \in DOMAIN mappings THEN "OK" ELSE "NotFound", update, NoBody)
    /\ UNCHANGED <<requirements, systems, evidence, blobs, nextId, now>>

update_requirement_status(p, mapping_id, status, notes, updated_by) ==
    LET update == [mapping_id |-> mapping_id, status |-> status, notes |-> notes,
                   updated_by |-> updated_by]
        found == first_by_id(mappings, mapping_id)
    IN
    /\ IsIdle(p)
    /\ IF status \notin ComplianceStatus
       THEN \* app.py 54 and 59: pydantic rejects a status outside the enum
            /\ Respond(p, "update_requirement_status", "Validation", update, NoBody)
            /\ UNCHANGED <<mappings, hist>>
       ELSE IF found = None
       THEN \* app.py 342-347
            /\ Respond(p, "update_requirement_status", "NotFound", update, NoBody)
            /\ UNCHANGED <<mappings, hist>>
       ELSE \* app.py 349-377
            LET loaded == Get(found)
                mapping == apply_status_update(loaded, status, notes, updated_by)
                row == flushed_mapping(mappings[mapping_id], loaded, mapping)
            IN  /\ mappings' = [mappings EXCEPT ![mapping_id] = row]
                /\ hist' = [hist EXCEPT ![mapping_id] =
                               record_call(@, status, notes, updated_by)]
                /\ Respond(p, "update_requirement_status", "OK", update,
                           [mapping_id |-> mapping_id,
                            old_status |-> loaded.status, new_status |-> row.status,
                            notes |-> row.notes, updated_by |-> row.updated_by])
    /\ UNCHANGED <<requirements, systems, evidence, blobs, nextId, now>>

----------------------------------------------------------------------------
(* get_system_compliance, app.py 288-333 *)

(* app.py 310-318: the histogram, filled by one pass over the mappings *)
RECURSIVE status_counts(_, _)
status_counts(rows, counts) ==
    IF rows = <<>> THEN counts
    ELSE status_counts(Tail(rows), [counts EXCEPT ![Head(rows).status] = @ + 1])

(* mutant: the percentage is cut to two decimals, not rounded *)
round2_truncated(num, den) == (num * 10000) \div den

(* app.py 320 and 327: Python's round(x, 2) of x = num / den * 100, in     *)
(* hundredths: the nearest hundredth, ties to even.  The quotient is taken *)
(* exactly: the float differs from it by less than 1e-13, and a tie needs  *)
(* den to be a multiple of 64                                              *)
round2(num, den) ==
    LET q == (num * 10000) \div den
        r == (num * 10000) % den
    IN  IF 2 * r < den THEN q
        ELSE IF 2 * r > den THEN q + 1
        ELSE IF q % 2 = 0 THEN q ELSE q + 1

(* app.py 295-297: the mappings of one system, as the query returns them *)
system_mappings(rows, system_id) ==
    LET ids == SetToSeq({id \in DOMAIN rows : rows[id].ai_system_id = system_id})
    IN  [i \in 1..Len(ids) |-> rows[ids[i]]]

EmptyDict == <<>>

(* mutant: the branch for a system without mappings is left out, and the   *)
(* percentage of nothing taken as 0                                        *)
compliance_summary_no_empty_branch(rows, system_id) ==
    LET ms == system_mappings(rows, system_id)
    IN  [total_requirements |-> Len(ms), compliance_percentage |-> 0,
         status_breakdown |-> status_counts(ms, [s \in ComplianceStatus |-> 0])]

(* mutant: the summary is the one computed when the system was registered, *)
(* with every mapping not started                                          *)
compliance_summary_cached(rows, system_id) ==
    LET ms == system_mappings(rows, system_id)
        total_requirements == Len(ms)
    IN  IF total_requirements = 0
        THEN [total_requirements |-> 0, compliance_percentage |-> 0,
              status_breakdown |-> EmptyDict]
        ELSE [total_requirements |-> total_requirements,
              compliance_percentage |-> 0,
              status_breakdown |-> [s \in ComplianceStatus |->
                                       IF s = NOT_STARTED THEN total_requirements ELSE 0]]

(* app.py 299-333 *)
compliance_summary(rows, system_id) ==
    LET ms == system_mappings(rows, system_id)
        total_requirements == Len(ms)
        counts == status_counts(ms, [s \in ComplianceStatus |-> 0])
    IN  IF total_requirements = 0
        THEN [total_requirements |-> 0, compliance_percentage |-> 0,
              status_breakdown |-> EmptyDict]
        ELSE [total_requirements |-> total_requirements,
              compliance_percentage |-> round2(counts["completed"], total_requirements),
              status_breakdown |-> counts]

get_system_compliance(p, system_id) ==
    /\ IsIdle(p)
    /\ IF first_by_id(systems, system_id) = None
       THEN Respond(p, "get_system_compliance", "NotFound", [system_id |-> system_id], NoBody)
       ELSE Respond(p, "get_system_compliance", "OK", [system_id |-> system_id],
                    compliance_summary(mappings, system_id))
    /\ UNCHANGED <<requirements, systems, mappings, evidence, blobs, nextId, now, hist>>

----------------------------------------------------------------------------
(* Text.  A Python str is the sequence of its characters *)

Contains(str, ch) == \E i \in 1..Len(str) : str[i] = ch

UpperCase == <<"A", "B", "C", "D", "E", "F", "G", "H", "I", "J", "K", "L", "M",
               "N", "O", "P", "Q", "R", "S", "T", "U", "V", "W", "X", "Y", "Z">>

LowerCase == <<"a", "b", "c", "d", "e", "f", "g", "h", "i", "j", "k", "l", "m",
               "n", "o", "p", "q", "r", "s", "t", "u", "v", "w", "x", "y", "z">>

(* str.lower() *)
lower(str) ==
    [i \in 1..Len(str) |->
        IF Contains(UpperCase, str[i])
        THEN LowerCase[CHOOSE k \in 1..26 : UpperCase[k] = str[i]]
        ELSE str[i]]

(* str.rsplit(ch, 1)[1], for a str that holds ch: what follows the last ch *)
rsplit_last(str, ch) ==
    LET last == CHOOSE i \in 1..Len(str) :
                    str[i] = ch /\ \A j \in (i + 1)..Len(str) : str[j] # ch
    IN  SubSeq(str, last + 1, Len(str))

(* str.replace(old, new), for single characters *)
replace(str, old, new) == [i \in 1..Len(str) |-> IF str[i] = old THEN new ELSE str[i]]

Digits == <<"0", "1", "2", "3", "4", "5", "6", "7", "8", "9">>

IsDigits(str) == \A i \in 1..Len(str) : Contains(Digits, str[i])

RECURSIVE int(_)
int(str) ==
    IF str = <<>> THEN 0
    ELSE 10 * int(SubSeq(str, 1, Len(str) - 1))
         + ((CHOOSE k \in 1..10 : Digits[k] = str[Len(str)]) - 1)

(* datetime.strptime(str, "%Y-%m-%d").date(): Some date, or None for the   *)
(* ValueError.  %Y is four digits, %m one or two digits making 1..12, %d   *)
(* one or two digits (or a space and a digit) making 1..31; the date must  *)
(* exist in the calendar, and the year be at least 1                       *)
days_in_month(year, month) ==
    IF month = 2
    THEN IF (year % 4 = 0 /\ year % 100 # 0) \/ year % 400 = 0 THEN 29 ELSE 28
    ELSE IF month \in {4, 6, 9, 11} THEN 30 ELSE 31

strptime_date(str) ==
    LET dashes == {i \in 1..Len(str) : str[i] = "-"}
    IN  IF Cardinality(dashes) # 2 THEN None
        ELSE LET d1 == CHOOSE i \in dashes : \A j \in dashes : i <= j
                 d2 == CHOOSE i \in dashes : \A j \in dashes : j <= i
                 Y == SubSeq(str, 1, d1 - 1)
                 m == SubSeq(str, d1 + 1, d2 - 1)
                 d0 == SubSeq(str, d2 + 1, Len(str))
                 d == IF Len(d0) = 2 /\ d0[1] = " " THEN Tail(d0) ELSE d0
             IN  IF /\ Len(Y) = 4 /\ IsDigits(Y) /\ int(Y) >= 1
                    /\ Len(m) \in {1, 2} /\ IsDigits(m) /\ int(m) \in 1..12
                    /\ (Len(m) = 1 => int(m) # 0)
                    /\ Len(d) \in {1, 2} /\ IsDigits(d) /\ int(d) >= 1
                    /\ (d0 # d => d[1] # "0")
                    /\ int(d) <= days_in_month(int(Y), int(m))
                 THEN Some([year |-> int(Y), month |-> int(m), day |-> int(d)])
                 ELSE None

----------------------------------------------------------------------------
(* s3_service.py *)

ALLOWED_FILE_TYPES ==
    { <<"p", "d", "f">>, <<"p", "n", "g">>, <<"j", "p", "g">>, <<"j", "p", "e", "g">>,
      <<"x", "l", "s", "x">>, <<"d", "o", "c", "x">>, <<"c", "s", "v">> }

MAX_FILE_SIZE == 25 * 1024 * 1024

(* s3_service.py 18-27.  The timestamp (strftime to the second) and the    *)
(* two ids (uuid4 strings) are one token each: they have a fixed width and *)
(* hold neither "/" nor "_"                                                *)
generate_s3_key(organization, system_id, requirement_mapping_id, filename, utcnow) ==
    LET timestamp == <<ToString(utcnow)>>
        safe_filename == replace(replace(filename, "/", "_"), "\\", "_")
        org == IF organization = None \/ Get(organization) = <<>>
               THEN <<"d", "e", "f", "a", "u", "l", "t">>
               ELSE Get(organization)
    IN  org \o <<"/">> \o <<ToString(system_id)>> \o <<"/">>
            \o <<ToString(requirement_mapping_id)>> \o <<"/">>
            \o timestamp \o <<"_">> \o safe_filename

(* mutant: the write is lost without an error *)
upload_file_to_s3_lost(bucket, file_size, s3_key) == bucket

(* s3_service.py 30-47: put_object stores the body under the key, over    *)
(* whatever was there                                                      *)
upload_file_to_s3(bucket, file_size, s3_key) ==
    (s3_key :> [size |-> file_size]) @@ bucket

----------------------------------------------------------------------------
(* upload_evidence, app.py 383-484 *)

(* mutant: the type is the extension as it was typed *)
Evidence_raw_type(ai_system_id, requirement_mapping_id, file_name, file_type, file_size, s3_key, description, expiration_date, uploaded_by, status, utcnow) ==
    [ai_system_id |-> ai_system_id, requirement_mapping_id |-> requirement_mapping_id,
     file_name |-> file_name, file_type |-> rsplit_last(file_name, "."),
     file_size |-> file_size,
     s3_key |-> s3_key, description |-> description,
     expiration_date |-> expiration_date, uploaded_by |-> uploaded_by,
     status |-> status, deleted_at |-> None, created_at |-> utcnow,
     updated_at |-> utcnow[1]]

(* models.py 89-126: an Evidence row as upload_evidence creates it.        *)
(* utcnow is the column default of created_at and updated_at: the second,  *)
(* and within the second the place of the insert among the inserts (the    *)
(* clock has microseconds, and an insert ends before the next begins).     *)
(* updated_at and deleted_at are kept to the second                        *)
Evidence(ai_system_id, requirement_mapping_id, file_name, file_type, file_size, s3_key, description, expiration_date, uploaded_by, status, utcnow) ==
    [ai_system_id |-> ai_system_id, requirement_mapping_id |-> requirement_mapping_id,
     file_name |-> file_name, file_type |-> file_type, file_size |-> file_size,
     s3_key |-> s3_key, description |-> description,
     expiration_date |-> expiration_date, uploaded_by |-> uploaded_by,
     status |-> status, deleted_at |-> None, created_at |-> utcnow,
     updated_at |-> utcnow[1]]

Error(kind, detail) == Some([kind |-> kind, detail |-> detail])

(* app.py 411 *)
file_extension(filename) == lower(rsplit_last(filename, "."))

(* mutant: the size of the file is not checked *)
upload_rejection_any_size(mapping_id, filename, file_size) ==
    LET mapping == first_by_id(mappings, mapping_id)
    IN  IF mapping = None
        THEN Error("NotFound", "Requirement mapping not found")
        ELSE IF first_by_id(systems, Get(mapping).ai_system_id) = None
        THEN Error("NotFound", "AI system not found")
        ELSE IF filename = <<>> \/ ~Contains(filename, ".")
        THEN Error("Validation", "File must have an extension")
        ELSE IF file_extension(filename) \notin ALLOWED_FILE_TYPES
        THEN Error("Validation", "File type not allowed")
        ELSE None

(* app.py 397-429: the checks made before anything is stored, in order:    *)
(* the first that fails is the error raised; None when all pass            *)
upload_rejection(mapping_id, filename, file_size) ==
    LET mapping == first_by_id(mappings, mapping_id)
    IN  IF mapping = None
        THEN Error("NotFound", "Requirement mapping not found")
        ELSE IF first_by_id(systems, Get(mapping).ai_system_id) = None
        THEN Error("NotFound", "AI system not found")
        ELSE IF filename = <<>> \/ ~Contains(filename, ".")
        THEN Error("Validation", "File must have an extension")
        ELSE IF file_extension(filename) \notin ALLOWED_FILE_TYPES
        THEN Error("Validation", "File type not allowed")
        ELSE IF file_size > MAX_FILE_SIZE
        THEN Error("Validation", "File too large")
        ELSE IF file_size = 0
        THEN Error("Validation", "File is empty")
        ELSE None

(* app.py 447-452: the expiration date, parsed when one was given *)
parse_expiration(expiration_date) ==
    IF expiration_date = None \/ Get(expiration_date) = <<>>
    THEN [ok |-> TRUE, date |-> None]
    ELSE LET parsed == strptime_date(Get(expiration_date))
         IN  [ok |-> parsed # None, date |-> parsed]

(* filename and file_size are the uploaded file; s3_up tells whether the   *)
(* bucket accepts the put_object                                           *)
upload_evidence(p, mapping_id, filename, file_size, description, expiration_date, uploaded_by, s3_up) ==
    LET arg == [mapping_id |-> mapping_id, filename |-> filename, file_size |-> file_size,
                expiration_date |-> expiration_date, s3_up |-> s3_up]
        rejection == upload_rejection(mapping_id, filename, file_size)
    IN
    /\ IsIdle(p)
    /\ IF rejection # None
       THEN \* app.py 397-429
            /\ Respond(p, "upload_evidence", Get(rejection).kind, arg,
                       [detail |-> Get(rejection).detail])
            /\ UNCHANGED <<evidence, blobs, nextId>>
       ELSE LET system_id == mappings[mapping_id].ai_system_id
                s3_key == generate_s3_key(systems[system_id].organization, system_id,
                                          mapping_id, filename, now)
                exp_date == parse_expiration(expiration_date)
            IN  IF ~s3_up
                THEN \* app.py 439-444: put_object raises
                     /\ Respond(p, "upload_evidence", "StorageFailure", arg,
                                [detail |-> "Failed to upload file"])
                     /\ UNCHANGED <<evidence, blobs, nextId>>
                ELSE /\ blobs' = upload_file_to_s3(blobs, file_size, s3_key)
                     /\ IF ~exp_date.ok
                        THEN \* app.py 446-452
                             /\ Respond(p, "upload_evidence", "Validation", arg,
                                        [detail |-> "Invalid date format. Use YYYY-MM-DD"])
                             /\ UNCHANGED <<evidence, nextId>>
                        ELSE \* app.py 454-484
                             /\ nextId.evidence <= MaxEvidence
                             /\ evidence' = evidence @@
                                   (nextId.evidence :>
                                      Evidence(system_id, mapping_id, filename,
                                               file_extension(filename), file_size, s3_key,
                                               description, exp_date.date, uploaded_by,
                                               CURRENT, <<now, nextId.evidence>>))
                             /\ nextId' = [nextId EXCEPT !.evidence = @ + 1]
                             /\ Respond(p, "upload_evidence", "OK", arg,
                                        [id |-> nextId.evidence,
                                         file_type |-> file_extension(filename),
                                         file_size |-> file_size, status |-> CURRENT])
    /\ UNCHANGED <<requirements, systems, mappings, now, hist>>

----------------------------------------------------------------------------
(* delete_evidence, app.py 685-701 *)

(* mutant: the lookup does not filter on deleted_at *)
first_live_evidence_unfiltered(rows, id) ==
    IF id \in DOMAIN rows THEN Some(rows[id]) ELSE None

(* db.query(Evidence).filter(Evidence.id == id, Evidence.deleted_at.is_(None)).first() *)
first_live_evidence(rows, id) ==
    IF id \in DOMAIN rows /\ rows[id].deleted_at = None THEN Some(rows[id]) ELSE None

(* mutant: a deleted record is deleted again *)
delete_evidence_again(p, evidence_id) ==
    /\ IsIdle(p)
    /\ IF evidence_id \notin DOMAIN evidence
       THEN /\ Respond(p, "delete_evidence", "NotFound", [evidence_id |-> evidence_id],
                       NoBody)
            /\ UNCHANGED evidence
       ELSE /\ evidence' = [evidence EXCEPT ![evidence_id].deleted_at = Some(now),
                                            ![evidence_id].updated_at = now]
            /\ Respond(p, "delete_evidence", "OK", [evidence_id |-> evidence_id], NoBody)
    /\ UNCHANGED <<requirements, systems, mappings, blobs, nextId, now, hist>>

(* mutant: the row and its blob are removed *)
delete_evidence_hard(p, evidence_id) ==
    /\ IsIdle(p)
    /\ IF first_live_evidence(evidence, evidence_id) = None
       THEN /\ Respond(p, "delete_evidence", "NotFound", [evidence_id |-> evidence_id],
                       NoBody)
            /\ UNCHANGED <<evidence, blobs>>
       ELSE /\ evidence' = Restrict(evidence, DOMAIN evidence \ {evidence_id})
            /\ blobs' = Restrict(blobs, DOMAIN blobs \ {evidence[evidence_id].s3_key})
            /\ Respond(p, "delete_evidence", "OK", [evidence_id |-> evidence_id], NoBody)
    /\ UNCHANGED <<requirements, systems, mappings, nextId, now, hist>>

(* mutant: the mapping of a deleted record is reopened *)
delete_evidence_reopens(p, evidence_id) ==
    /\ IsIdle(p)
    /\ IF first_live_evidence(evidence, evidence_id) = None
       THEN /\ Respond(p, "delete_evidence", "NotFound", [evidence_id |-> evidence_id],
                       NoBody)
            /\ UNCHANGED <<evidence, mappings>>
       ELSE /\ evidence' = [evidence EXCEPT ![evidence_id].deleted_at = Some(now),
                                            ![evidence_id].updated_at = now]
            /\ mappings' = [mappings EXCEPT
                               ![evidence[evidence_id].requirement_mapping_id].status =
                                   "in_progress"]
            /\ Respond(p, "delete_evidence", "OK", [evidence_id |-> evidence_id], NoBody)
    /\ UNCHANGED <<requirements, systems, blobs, nextId, now, hist>>

delete_evidence(p, evidence_id) ==
    /\ IsIdle(p)
    /\ IF first_live_evidence(evidence, evidence_id) = None
       THEN /\ Respond(p, "delete_evidence", "NotFound", [evidence_id |-> evidence_id],
                       NoBody)
            /\ UNCHANGED evidence
       ELSE \* app.py 696-697; the UPDATE sets updated_at too (models.py 122)
            /\ evidence' = [evidence EXCEPT ![evidence_id].deleted_at = Some(now),
                                            ![evidence_id].updated_at = now]
            /\ Respond(p, "delete_evidence", "OK", [evidence_id |-> evidence_id], NoBody)
    /\ UNCHANGED <<requirements, systems, mappings, blobs, nextId, now, hist>>

----------------------------------------------------------------------------
(* update_evidence, app.py 637-682 *)

(* mutant: the status is stored as it was given *)
apply_evidence_update_unchecked(loaded, description, expiration_date, status) ==
    LET e1 == IF description # None
              THEN [loaded EXCEPT !.description = description] ELSE loaded
        parsed == IF expiration_date # None
                  THEN strptime_date(Get(expiration_date)) ELSE None
    IN  IF expiration_date # None /\ parsed = None
        THEN [error |-> Some("Invalid date format. Use YYYY-MM-DD"), evidence |-> e1]
        ELSE LET e2 == IF expiration_date # None
                       THEN [e1 EXCEPT !.expiration_date = parsed] ELSE e1
             IN  [error |-> None,
                  evidence |-> IF status # None
                               THEN [e2 EXCEPT !.status = Get(status)] ELSE e2]

(* mutant: a record given an expiration date becomes expiring_soon *)
apply_evidence_update_expiring(loaded, description, expiration_date, status) ==
    LET e1 == IF description # None
              THEN [loaded EXCEPT !.description = description] ELSE loaded
        parsed == IF expiration_date # None
                  THEN strptime_date(Get(expiration_date)) ELSE None
    IN  IF expiration_date # None /\ parsed = None
        THEN [error |-> Some("Invalid date format. Use YYYY-MM-DD"), evidence |-> e1]
        ELSE LET e2 == IF expiration_date # None
                       THEN [e1 EXCEPT !.expiration_date = parsed,
                                       !.status = "expiring_soon"]
                       ELSE e1
             IN  IF status # None /\ Get(status) \notin EvidenceStatus
                 THEN [error |-> Some("Invalid status"), evidence |-> e2]
                 ELSE [error |-> None,
                       evidence |-> IF status # None
                                    THEN [e2 EXCEPT !.status = Get(status)] ELSE e2]

(* mutant: the description is assigned whether given or not *)
apply_evidence_update_put(loaded, description, expiration_date, status) ==
    LET e1 == [loaded EXCEPT !.description = description]
        parsed == IF expiration_date # None
                  THEN strptime_date(Get(expiration_date)) ELSE None
    IN  IF expiration_date # None /\ parsed = None
        THEN [error |-> Some("Invalid date format. Use YYYY-MM-DD"), evidence |-> e1]
        ELSE LET e2 == IF expiration_date # None
                       THEN [e1 EXCEPT !.expiration_date = parsed] ELSE e1
             IN  IF status # None /\ Get(status) \notin EvidenceStatus
                 THEN [error |-> Some("Invalid status"), evidence |-> e2]
                 ELSE [error |-> None,
                       evidence |-> IF status # None
                                    THEN [e2 EXCEPT !.status = Get(status)] ELSE e2]

(* app.py 652-670: the assignments made on the loaded row, up to the first *)
(* that raises.  error is None, or the detail of the HTTPException         *)
apply_evidence_update(loaded, description, expiration_date, status) ==
    LET e1 == IF description # None
              THEN [loaded EXCEPT !.description = description] ELSE loaded
        parsed == IF expiration_date # None
                  THEN strptime_date(Get(expiration_date)) ELSE None
    IN  IF expiration_date # None /\ parsed = None
        THEN [error |-> Some("Invalid date format. Use YYYY-MM-DD"), evidence |-> e1]
        ELSE LET e2 == IF expiration_date # None
                       THEN [e1 EXCEPT !.expiration_date = parsed] ELSE e1
             IN  IF status # None /\ Get(status) \notin EvidenceStatus
                 THEN [error |-> Some("Invalid status"), evidence |-> e2]
                 ELSE [error |-> None,
                       evidence |-> IF status # None
                                    THEN [e2 EXCEPT !.status = Get(status)] ELSE e2]

(* mutant: the pending changes are flushed before the session is closed *)
closed_session_flushed(rows, id, pending) == [rows EXCEPT ![id] = pending]

(* database.py 27-29: the session is closed without a commit; what was     *)
(* assigned on its objects is not written (autoflush is off, line 21)      *)
closed_session(rows, id, pending) == rows

(* app.py 672: the flush writes the columns whose value differs from the   *)
(* loaded one, and updated_at (onupdate, models.py 122) when it writes any *)
flushed_evidence(row, loaded, changed, utcnow) ==
    [c \in DOMAIN row |->
        IF changed[c] # loaded[c] THEN changed[c]
        ELSE IF c = "updated_at" /\ changed # loaded THEN utcnow
        ELSE row[c]]

update_evidence(p, evidence_id, description, expiration_date, status) ==
    LET arg == [evidence_id |-> evidence_id, description |-> description,
                expiration_date |-> expiration_date, status |-> status]
        found == first_live_evidence(evidence, evidence_id)
    IN
    /\ IsIdle(p)
    /\ IF found = None
       THEN \* app.py 646-650
            /\ Respond(p, "update_evidence", "NotFound", arg, [detail |-> "Evidence not found"])
            /\ UNCHANGED evidence
       ELSE LET loaded == Get(found)
                outcome == apply_evidence_update(loaded, description, expiration_date, status)
            IN  IF outcome.error # None
                THEN \* app.py 658-659, 664-670
                     /\ evidence' = closed_session(evidence, evidence_id, outcome.evidence)
                     /\ Respond(p, "update_evidence", "Validation", arg,
                                [detail |-> Get(outcome.error)])
                ELSE \* app.py 672-682
                     LET row == flushed_evidence(evidence[evidence_id], loaded,
                                                 outcome.evidence, now)
                     IN  /\ evidence' = [evidence EXCEPT ![evidence_id] = row]
                         /\ Respond(p, "update_evidence", "OK", arg,
                                    [id |-> evidence_id, file_name |-> row.file_name,
                                     status |-> row.status, description |-> row.description,
                                     expiration_date |-> row.expiration_date,
                                     updated_at |-> row.updated_at])
    /\ UNCHANGED <<requirements, systems, mappings, blobs, nextId, now, hist>>

----------------------------------------------------------------------------
(* The evidence reads, app.py 487-634 and 704-731 *)

(* datetime comparison: the second, then the place within it *)
Later(a, b) == a[1] > b[1] \/ (a[1] = b[1] /\ a[2] > b[2])

(* query.order_by(Evidence.created_at.desc()) over the rows ids names *)
RECURSIVE order_by_created_at_desc(_, _)
order_by_created_at_desc(rows, ids) ==
    IF ids = {} THEN <<>>
    ELSE LET newest == CHOOSE i \in ids :
                           \A j \in ids \ {i} : Later(rows[i].created_at, rows[j].created_at)
         IN  <<newest>> \o order_by_created_at_desc(rows, ids \ {newest})

(* mutant: the offset is page * page_size *)
offset_limit_from_next_page(list, page, page_size) ==
    SubSeq(list, page * page_size + 1,
           IF page * page_size + page_size < Len(list)
           THEN page * page_size + page_size ELSE Len(list))

(* .offset((page - 1) * page_size).limit(page_size) *)
offset_limit(list, page, page_size) ==
    SubSeq(list, (page - 1) * page_size + 1,
           IF (page - 1) * page_size + page_size < Len(list)
           THEN (page - 1) * page_size + page_size ELSE Len(list))

(* app.py 499, 546: min(page_size, 100) *)
clamped_page_size(page_size) == IF page_size < 100 THEN page_size ELSE 100

(* app.py 501-504 *)
live_mapping_evidence(rows, mapping_id) ==
    {id \in DOMAIN rows : rows[id].requirement_mapping_id = mapping_id
                             /\ rows[id].deleted_at = None}

(* app.py 548-551 *)
live_system_evidence(rows, system_id) ==
    {id \in DOMAIN rows : rows[id].ai_system_id = system_id /\ rows[id].deleted_at = None}

(* app.py 514-526: one item of the mapping's listing *)
requirement_evidence_item(id, e) ==
    [id |-> id, file_name |-> e.file_name, file_type |-> e.file_type,
     file_size |-> e.file_size, status |-> e.status, description |-> e.description,
     expiration_date |-> e.expiration_date, uploaded_by |-> e.uploaded_by,
     created_at |-> e.created_at]

(* app.py 561-574: one item of the system's listing *)
system_evidence_item(id, e) ==
    [id |-> id, requirement_mapping_id |-> e.requirement_mapping_id,
     file_name |-> e.file_name, file_type |-> e.file_type,
     file_size |-> e.file_size, status |-> e.status, description |-> e.description,
     expiration_date |-> e.expiration_date, uploaded_by |-> e.uploaded_by,
     created_at |-> e.created_at]

(* app.py 506-531, 553-579: the page of a listing; ids is the query *)
evidence_ids_page(rows, ids, page, page_size) ==
    offset_limit(order_by_created_at_desc(rows, ids), page, page_size)

list_requirement_evidence(p, mapping_id, page, page_size) ==
    LET arg == [mapping_id |-> mapping_id, page |-> page, page_size |-> page_size]
        size == clamped_page_size(page_size)
        query == live_mapping_evidence(evidence, mapping_id)
        evidence_list == evidence_ids_page(evidence, query, page, size)
    IN
    /\ IsIdle(p)
    /\ IF first_by_id(mappings, mapping_id) = None
       THEN Respond(p, "list_requirement_evidence", "NotFound", arg,
                    [detail |-> "Requirement mapping not found"])
       ELSE Respond(p, "list_requirement_evidence", "OK", arg,
                    [items |-> [k \in 1..Len(evidence_list) |->
                                   requirement_evidence_item(evidence_list[k],
                                                             evidence[evidence_list[k]])],
                     total |-> Cardinality(query), page |-> page, page_size |-> size])
    /\ UNCHANGED <<requirements, systems, mappings, evidence, blobs, nextId, now, hist>>

list_system_evidence(p, system_id, page, page_size) ==
    LET arg == [system_id |-> system_id, page |-> page, page_size |-> page_size]
        size == clamped_page_size(page_size)
        query == live_system_evidence(evidence, system_id)
        evidence_list == evidence_ids_page(evidence, query, page, size)
    IN
    /\ IsIdle(p)
    /\ IF first_by_id(systems, system_id) = None
       THEN Respond(p, "list_system_evidence", "NotFound", arg,
                    [detail |-> "AI system not found"])
       ELSE Respond(p, "list_system_evidence", "OK", arg,
                    [items |-> [k \in 1..Len(evidence_list) |->
                                   system_evidence_item(evidence_list[k],
                                                        evidence[evidence_list[k]])],
                     total |-> Cardinality(query), page |-> page, page_size |-> size])
    /\ UNCHANGED <<requirements, systems, mappings, evidence, blobs, nextId, now, hist>>

(* app.py 582-606 *)
get_evidence(p, evidence_id) ==
    LET found == first_live_evidence(evidence, evidence_id)
    IN
    /\ IsIdle(p)
    /\ IF found = None
       THEN Respond(p, "get_evidence", "NotFound", [evidence_id |-> evidence_id],
                    [detail |-> "Evidence not found"])
       ELSE Respond(p, "get_evidence", "OK", [evidence_id |-> evidence_id],
                    LET e == Get(found)
                    IN  [id |-> evidence_id, ai_system_id |-> e.ai_system_id,
                         requirement_mapping_id |-> e.requirement_mapping_id,
                         file_name |-> e.file_name, file_type |-> e.file_type,
                         file_size |-> e.file_size, status |-> e.status,
                         description |-> e.description,
                         expiration_date |-> e.expiration_date,
                         uploaded_by |-> e.uploaded_by, created_at |-> e.created_at,
                         updated_at |-> e.updated_at])
    /\ UNCHANGED <<requirements, systems, mappings, evidence, blobs, nextId, now, hist>>

(* s3_service.py 50-68: the URL is signed locally; it names the key *)
generate_presigned_download_url(s3_key, filename, expires_in) ==
    [key |-> s3_key, filename |-> filename, expires_in |-> expires_in]

(* app.py 609-634; s3_up tells whether the signing succeeds *)
download_evidence(p, evidence_id, s3_up) ==
    LET arg == [evidence_id |-> evidence_id, s3_up |-> s3_up]
        found == first_live_evidence(evidence, evidence_id)
    IN
    /\ IsIdle(p)
    /\ IF found = None
       THEN Respond(p, "download_evidence", "NotFound", arg,
                    [detail |-> "Evidence not found"])
       ELSE IF ~s3_up
       THEN Respond(p, "download_evidence", "StorageFailure", arg,
                    [detail |-> "Failed to generate download URL"])
       ELSE Respond(p, "download_evidence", "OK", arg,
                    [download_url |-> generate_presigned_download_url(
                                          Get(found).s3_key, Get(found).file_name, 300),
                     expires_in_seconds |-> 300,
                     file_name |-> Get(found).file_name,
                     file_type |-> Get(found).file_type])
    /\ UNCHANGED <<requirements, systems, mappings, evidence, blobs, nextId, now, hist>>

(* app.py 711-717: the statuses that live rows of the mapping have, each   *)
(* with the number of those rows                                           *)
evidence_status_groups(rows, mapping_id) ==
    LET live == live_mapping_evidence(rows, mapping_id)
    IN  {<<status, Cardinality({id \in live : rows[id].status = status})>> :
            status \in {rows[id].status : id \in live}}

(* mutant: total counts the groups *)
evidence_stats_counting_groups(groups) ==
    [k \in EvidenceStatus \cup {"total"} |->
        IF k = "total" THEN Cardinality(groups)
        ELSE IF \E g \in groups : g[1] = k
        THEN (CHOOSE g \in groups : g[1] = k)[2] ELSE 0]

RECURSIVE sum_counts(_)
sum_counts(groups) ==
    IF groups = {} THEN 0
    ELSE LET g == CHOOSE x \in groups : TRUE IN g[2] + sum_counts(groups \ {g})

(* app.py 719-731: result starts at zero; each group sets its status and   *)
(* adds to total                                                           *)
evidence_stats(groups) ==
    [k \in EvidenceStatus \cup {"total"} |->
        IF k = "total" THEN sum_counts(groups)
        ELSE IF \E g \in groups : g[1] = k
        THEN (CHOOSE g \in groups : g[1] = k)[2] ELSE 0]

get_evidence_stats(p, mapping_id) ==
    /\ IsIdle(p)
    /\ IF first_by_id(mappings, mapping_id) = None
       THEN Respond(p, "get_evidence_stats", "NotFound", [mapping_id |-> mapping_id],
                    [detail |-> "Requirement mapping not found"])
       ELSE Respond(p, "get_evidence_stats", "OK", [mapping_id |-> mapping_id],
                    evidence_stats(evidence_status_groups(evidence, mapping_id)))
    /\ UNCHANGED <<requirements, systems, mappings, evidence, blobs, nextId, now, hist>>

(* the clock moves on *)
tick ==
    /\ now < MaxTime
    /\ now' = now + 1
    /\ UNCHANGED <<requirements, systems, mappings, evidence, blobs, nextId, req, resp, hist>>

----------------------------------------------------------------------------
(* delete_ai_system, app.py 745-765 *)

(* mutant: the cascade leaves the soft-deleted evidence rows *)
delete_ai_system_live_evidence(p, system_id) ==
    /\ IsIdle(p)
    /\ IF first_by_id(systems, system_id) = None
       THEN /\ Respond(p, "delete_ai_system", "NotFound", [system_id |-> system_id], NoBody)
            /\ UNCHANGED <<systems, mappings, evidence, hist>>
       ELSE LET keepM == {id \in DOMAIN mappings : mappings[id].ai_system_id # system_id}
                keepE == {id \in DOMAIN evidence : evidence[id].ai_system_id # system_id
                                                   \/ evidence[id].deleted_at # None}
            IN  /\ evidence' = Restrict(evidence, keepE)
                /\ mappings' = Restrict(mappings, keepM)
                /\ hist' = Restrict(hist, keepM)
                /\ systems' = Restrict(systems, DOMAIN systems \ {system_id})
                /\ Respond(p, "delete_ai_system", "OK", [system_id |-> system_id], NoBody)
    /\ UNCHANGED <<requirements, blobs, nextId, now>>

(* mutant: the cascade leaves the mappings *)
delete_ai_system_keeps_mappings(p, system_id) ==
    /\ IsIdle(p)
    /\ IF first_by_id(systems, system_id) = None
       THEN /\ Respond(p, "delete_ai_system", "NotFound", [system_id |-> system_id], NoBody)
            /\ UNCHANGED <<systems, mappings, evidence, hist>>
       ELSE LET keepE == {id \in DOMAIN evidence : evidence[id].ai_system_id # system_id}
            IN  /\ evidence' = Restrict(evidence, keepE)
                /\ systems' = Restrict(systems, DOMAIN systems \ {system_id})
                /\ Respond(p, "delete_ai_system", "OK", [system_id |-> system_id], NoBody)
                /\ UNCHANGED <<mappings, hist>>
    /\ UNCHANGED <<requirements, blobs, nextId, now>>

delete_ai_system(p, system_id) ==
    /\ IsIdle(p)
    /\ IF first_by_id(systems, system_id) = None
       THEN /\ Respond(p, "delete_ai_system", "NotFound", [system_id |-> system_id], NoBody)
            /\ UNCHANGED <<systems, mappings, evidence, hist>>
       ELSE LET keepM == {id \in DOMAIN mappings : mappings[id].ai_system_id # system_id}
                keepE == {id \in DOMAIN evidence : evidence[id].ai_system_id # system_id}
            IN  /\ evidence' = Restrict(evidence, keepE)
                /\ mappings' = Restrict(mappings, keepM)
                /\ hist' = Restrict(hist, keepM)
                /\ systems' = Restrict(systems, DOMAIN systems \ {system_id})
                /\ Respond(p, "delete_ai_system", "OK", [system_id |-> system_id], NoBody)
    /\ UNCHANGED <<requirements, blobs, nextId, now>>

----------------------------------------------------------------------------
(* get_ai_system, app.py 215-233, and get_system_requirements, app.py      *)
(* 257-286                                                                 *)

get_ai_system(p, system_id) ==
    LET system == first_by_id(systems, system_id)
    IN
    /\ IsIdle(p)
    /\ IF system = None
       THEN Respond(p, "get_ai_system", "NotFound", [system_id |-> system_id],
                    [detail |-> "AI system not found"])
       ELSE Respond(p, "get_ai_system", "OK", [system_id |-> system_id],
                    [id |-> system_id, risk_category |-> Get(system).risk_category,
                     organization |-> Get(system).organization])
    /\ UNCHANGED <<requirements, systems, mappings, evidence, blobs, nextId, now, hist>>

(* app.py 268-284: one result per mapping whose requirement is in the      *)
(* catalog                                                                 *)
system_requirement_results(catalog, rows, system_id) ==
    LET ids == SetToSeq({id \in DOMAIN rows : rows[id].ai_system_id = system_id})
        known == SelectSeq(ids, LAMBDA id :
                     \E i \in 1..Len(catalog) : catalog[i].id = rows[id].requirement_id)
    IN  [k \in 1..Len(known) |->
            [mapping_id |-> known[k], requirement_id |-> rows[known[k]].requirement_id,
             status |-> rows[known[k]].status, notes |-> rows[known[k]].notes]]

get_system_requirements(p, system_id) ==
    /\ IsIdle(p)
    /\ IF first_by_id(systems, system_id) = None
       THEN Respond(p, "get_system_requirements", "NotFound", [system_id |-> system_id],
                    [detail |-> "AI system not found"])
       ELSE Respond(p, "get_system_requirements", "OK", [system_id |-> system_id],
                    system_requirement_results(requirements, mappings, system_id))
    /\ UNCHANGED <<requirements, systems, mappings, evidence, blobs, nextId, now, hist>>

----------------------------------------------------------------------------
(* delete_ai_system, app.py 745-765, statement by statement, for requests  *)
(* that overlap.  The session's transaction begins with its first          *)
(* statement; the two bulk deletes are sent to the database at once, the   *)
(* deletion of the system row at the commit.  What a transaction has       *)
(* written is seen by the others when it commits, and is dropped when the  *)
(* session is closed without a commit (database.py 27-29).                 *)

(* database.py 7-19: the default database is SQLite, where a transaction   *)
(* that has written holds the write lock of the database until it ends:    *)
(* no other session writes meanwhile                                       *)
holds_write_lock(q) ==
    req[q].op = "delete_ai_system" /\ req[q].pc \in {"mappings", "commit"}

can_write(p) == \A q \in Workers \ {p} : ~holds_write_lock(q)

(* app.py 748-751 *)
delete_ai_system_query(p, system_id) ==
    /\ IsIdle(p)
    /\ IF first_by_id(systems, system_id) = None
       THEN Respond(p, "delete_ai_system", "NotFound", [system_id |-> system_id], NoBody)
       ELSE /\ req' = [req EXCEPT ![p] = [op |-> "delete_ai_system", pc |-> "evidence",
                                           system_id |-> system_id,
                                           deleted_evidence |-> {},
                                           deleted_mappings |-> {}]]
            /\ UNCHANGED resp
    /\ UNCHANGED <<requirements, systems, mappings, evidence, blobs, nextId, now, hist>>

(* mutant: the bulk delete of the evidence is committed on its own *)
delete_ai_system_evidence_autocommit(p) ==
    /\ At(p, "delete_ai_system", "evidence")
    /\ can_write(p)
    /\ evidence' = Restrict(evidence, {id \in DOMAIN evidence :
                                          evidence[id].ai_system_id # req[p].system_id})
    /\ req' = [req EXCEPT ![p].pc = "mappings"]
    /\ UNCHANGED <<requirements, systems, mappings, blobs, nextId, now, resp, hist>>

(* app.py 754: DELETE FROM evidence WHERE ai_system_id = :system_id *)
delete_ai_system_evidence(p) ==
    /\ At(p, "delete_ai_system", "evidence")
    /\ can_write(p)
    /\ req' = [req EXCEPT ![p].pc = "mappings",
                          ![p].deleted_evidence =
                              {id \in DOMAIN evidence :
                                  evidence[id].ai_system_id = req[p].system_id}]
    /\ UNCHANGED <<requirements, systems, mappings, evidence, blobs, nextId, now, resp, hist>>

(* app.py 757: DELETE FROM requirement_mappings WHERE ai_system_id = :system_id *)
delete_ai_system_mappings(p) ==
    /\ At(p, "delete_ai_system", "mappings")
    /\ req' = [req EXCEPT ![p].pc = "commit",
                          ![p].deleted_mappings =
                              {id \in DOMAIN mappings :
                                  mappings[id].ai_system_id = req[p].system_id}]
    /\ UNCHANGED <<requirements, systems, mappings, evidence, blobs, nextId, now, resp, hist>>

(* app.py 760-765: the system row is deleted and the transaction committed *)
delete_ai_system_commit(p) ==
    /\ At(p, "delete_ai_system", "commit")
    /\ evidence' = Restrict(evidence, DOMAIN evidence \ req[p].deleted_evidence)
    /\ mappings' = Restrict(mappings, DOMAIN mappings \ req[p].deleted_mappings)
    /\ hist' = Restrict(hist, DOMAIN mappings \ req[p].deleted_mappings)
    /\ systems' = Restrict(systems, DOMAIN systems \ {req[p].system_id})
    /\ Respond(p, "delete_ai_system", "OK", [system_id |-> req[p].system_id], NoBody)
    /\ UNCHANGED <<requirements, blobs, nextId, now>>

(* app.py 754, 757 or 761: a statement or the commit raises; the session   *)
(* is closed and the transaction rolled back                               *)
delete_ai_system_fail(p) ==
    /\ req[p].op = "delete_ai_system"
    /\ Respond(p, "delete_ai_system", "ServerError", [system_id |-> req[p].system_id],
               NoBody)
    /\ UNCHANGED <<requirements, systems, mappings, evidence, blobs, nextId, now, hist>>

----------------------------------------------------------------------------
(* update_requirement_status, app.py 335-377, in its two steps, for        *)
(* requests that overlap: the query that loads the row into the request's  *)
(* session, and the commit                                                 *)

(* app.py 342-355: the row is loaded and the assignments are made on the   *)
(* loaded object                                                           *)
update_requirement_status_query(p, mapping_id, status, notes, updated_by) ==
    LET update == [mapping_id |-> mapping_id, status |-> status, notes |-> notes,
                   updated_by |-> updated_by]
        found == first_by_id(mappings, mapping_id)
    IN
    /\ IsIdle(p)
    /\ status \in ComplianceStatus
    /\ IF found = None
       THEN Respond(p, "update_requirement_status", "NotFound", update, NoBody)
       ELSE /\ req' = [req EXCEPT ![p] =
                          [op |-> "update_requirement_status", pc |-> "commit",
                           update |-> update, loaded |-> Get(found),
                           mapping |-> apply_status_update(Get(found), status, notes,
                                                           updated_by)]]
            /\ UNCHANGED resp
    /\ UNCHANGED <<requirements, systems, mappings, evidence, blobs, nextId, now, hist>>

(* app.py 357-377: the flush sends an UPDATE of the columns that the       *)
(* request changed on the object it loaded, and of no column when it       *)
(* changed none; the refresh reads the row back for the response.  An      *)
(* UPDATE of a row that is gone matches nothing and raises                 *)
update_requirement_status_commit(p) ==
    LET update == req[p].update
        mapping_id == update.mapping_id
    IN
    /\ At(p, "update_requirement_status", "commit")
    /\ can_write(p)
    /\ IF mapping_id \notin DOMAIN mappings
       THEN /\ Respond(p, "update_requirement_status", "ServerError", update, NoBody)
            /\ UNCHANGED <<mappings, hist>>
       ELSE LET row == flushed_mapping(mappings[mapping_id], req[p].loaded, req[p].mapping)
            IN  /\ mappings' = [mappings EXCEPT ![mapping_id] = row]
                /\ hist' = [hist EXCEPT ![mapping_id] =
                               record_call(@, update.status, update.notes,
                                           update.updated_by)]
                /\ Respond(p, "update_requirement_status", "OK", update,
                           [mapping_id |-> mapping_id,
                            old_status |-> req[p].loaded.status,
                            new_status |-> row.status,
                            notes |-> row.notes, updated_by |-> row.updated_by])
    /\ UNCHANGED <<requirements, systems, evidence, blobs, nextId, now>>

----------------------------------------------------------------------------
(* seed_eu_ai_act_requirements, seed_requirements.py 10-203, run as a      *)
(* script: the query for an existing row, and the commit of the seed list  *)

(* seed_requirements.py 190-198: one new row per entry of the list, each   *)
(* with a fresh uuid4 id                                                   *)
seeded_rows(catalog, entries) ==
    [i \in 1..Len(entries) |->
        ComplianceRequirement(Len(catalog) + i, entries[i].applies_to)]

(* seed_requirements.py 13-20 *)
seed_query(p) ==
    /\ IsIdle(p)
    /\ IF requirements # <<>>
       THEN Respond(p, "seed_eu_ai_act_requirements", "Skipped", NoBody, NoBody)
       ELSE /\ req' = [req EXCEPT ![p] = [op |-> "seed_eu_ai_act_requirements",
                                           pc |-> "commit"]]
            /\ UNCHANGED resp
    /\ UNCHANGED <<requirements, systems, mappings, evidence, blobs, nextId, now, hist>>

(* seed_requirements.py 22-203 *)
seed_commit(p) ==
    /\ At(p, "seed_eu_ai_act_requirements", "commit")
    /\ requirements' = requirements \o seeded_rows(requirements, SeedRequirements)
    /\ Respond(p, "seed_eu_ai_act_requirements", "OK", NoBody,
               [seeded |-> Len(SeedRequirements)])
    /\ UNCHANGED <<systems, mappings, evidence, blobs, nextId, now, hist>>

----------------------------------------------------------------------------
(* upload_evidence, app.py 383-484, step by step, for requests that        *)
(* overlap: the queries and the checks of the file, the write to the       *)
(* bucket, and the commit of the new row                                   *)

(* app.py 397-429 *)
upload_evidence_query(p, mapping_id, filename, file_size, expiration_date, s3_up) ==
    LET arg == [mapping_id |-> mapping_id, filename |-> filename, file_size |-> file_size,
                expiration_date |-> expiration_date, s3_up |-> s3_up]
        rejection == upload_rejection(mapping_id, filename, file_size)
    IN
    /\ IsIdle(p)
    /\ IF rejection # None
       THEN Respond(p, "upload_evidence", Get(rejection).kind, arg,
                    [detail |-> Get(rejection).detail])
       ELSE /\ req' = [req EXCEPT ![p] =
                          [op |-> "upload_evidence", pc |-> "put", arg |-> arg,
                           system_id |-> mappings[mapping_id].ai_system_id,
                           organization |->
                               systems[mappings[mapping_id].ai_system_id].organization]]
            /\ UNCHANGED resp
    /\ UNCHANGED <<requirements, systems, mappings, evidence, blobs, nextId, now, hist>>

(* app.py 431-452: the key is generated, the blob is written, and the      *)
(* expiration date is parsed                                               *)
upload_evidence_put(p) ==
    LET arg == req[p].arg
        s3_key == generate_s3_key(req[p].organization, req[p].system_id, arg.mapping_id,
                                  arg.filename, now)
        exp_date == parse_expiration(arg.expiration_date)
    IN
    /\ At(p, "upload_evidence", "put")
    /\ IF ~arg.s3_up
       THEN /\ Respond(p, "upload_evidence", "StorageFailure", arg,
                       [detail |-> "Failed to upload file"])
            /\ UNCHANGED blobs
       ELSE /\ blobs' = upload_file_to_s3(blobs, arg.file_size, s3_key)
            /\ IF ~exp_date.ok
               THEN Respond(p, "upload_evidence", "Validation", arg,
                            [detail |-> "Invalid date format. Use YYYY-MM-DD"])
               ELSE /\ req' = [req EXCEPT ![p] =
                                  [op |-> "upload_evidence", pc |-> "commit", arg |-> arg,
                                   system_id |-> req[p].system_id, s3_key |-> s3_key,
                                   expiration_date |-> exp_date.date]]
                    /\ UNCHANGED resp
    /\ UNCHANGED <<requirements, systems, mappings, evidence, nextId, now, hist>>

(* app.py 454-484: the INSERT of the evidence row.  foreign_keys tells     *)
(* whether the database checks the row's foreign keys (models.py 94-95):   *)
(* SQLite, the default of database.py 7, does not unless it is told to,    *)
(* PostgreSQL does, and then the INSERT of a row whose system or mapping   *)
(* is gone raises                                                          *)
upload_evidence_commit(p, foreign_keys) ==
    LET arg == req[p].arg
        referenced == /\ req[p].system_id \in DOMAIN systems
                      /\ arg.mapping_id \in DOMAIN mappings
    IN
    /\ At(p, "upload_evidence", "commit")
    /\ can_write(p)
    /\ IF foreign_keys /\ ~referenced
       THEN /\ Respond(p, "upload_evidence", "ServerError", arg, NoBody)
            /\ UNCHANGED <<evidence, nextId>>
       ELSE /\ nextId.evidence <= MaxEvidence
            /\ evidence' = evidence @@
                  (nextId.evidence :>
                     Evidence(req[p].system_id, arg.mapping_id, arg.filename,
                              file_extension(arg.filename), arg.file_size, req[p].s3_key,
                              None, req[p].expiration_date, None, CURRENT,
                              <<now, nextId.evidence>>))
            /\ nextId' = [nextId EXCEPT !.evidence = @ + 1]
            /\ Respond(p, "upload_evidence", "OK", arg,
                       [id |-> nextId.evidence,
                        file_type |-> file_extension(arg.filename),
                        file_size |-> arg.file_size, status |-> CURRENT])
    /\ UNCHANGED <<requirements, systems, mappings, blobs, now, hist>>

----------------------------------------------------------------------------
(* delete_evidence, app.py 685-701, and update_evidence, app.py 637-682,   *)
(* in their two steps, for requests that overlap: the query that loads the *)
(* live row into the request's session, and the commit                     *)

(* app.py 688-697: the row is loaded and deleted_at is assigned on the     *)
(* loaded object                                                           *)
delete_evidence_query(p, evidence_id) ==
    LET found == first_live_evidence(evidence, evidence_id)
    IN
    /\ IsIdle(p)
    /\ IF found = None
       THEN Respond(p, "delete_evidence", "NotFound", [evidence_id |-> evidence_id],
                    NoBody)
       ELSE /\ req' = [req EXCEPT ![p] =
                          [op |-> "delete_evidence", pc |-> "commit",
                           evidence_id |-> evidence_id, loaded |-> Get(found),
                           evidence |-> [Get(found) EXCEPT !.deleted_at = Some(now)]]]
            /\ UNCHANGED resp
    /\ UNCHANGED <<requirements, systems, mappings, evidence, blobs, nextId, now, hist>>

(* app.py 698-701: the flush sends UPDATE evidence SET deleted_at,         *)
(* updated_at WHERE id = :id; an UPDATE of a row that is gone raises       *)
delete_evidence_commit(p) ==
    LET evidence_id == req[p].evidence_id
    IN
    /\ At(p, "delete_evidence", "commit")
    /\ can_write(p)
    /\ IF evidence_id \notin DOMAIN evidence
       THEN /\ Respond(p, "delete_evidence", "ServerError",
                       [evidence_id |-> evidence_id], NoBody)
            /\ UNCHANGED evidence
       ELSE /\ evidence' = [evidence EXCEPT ![evidence_id] =
                               flushed_evidence(@, req[p].loaded, req[p].evidence, now)]
            /\ Respond(p, "delete_evidence", "OK", [evidence_id |-> evidence_id], NoBody)
    /\ UNCHANGED <<requirements, systems, mappings, blobs, nextId, now, hist>>

(* app.py 646-670 *)
update_evidence_query(p, evidence_id, description, expiration_date, status) ==
    LET arg == [evidence_id |-> evidence_id, description |-> description,
                expiration_date |-> expiration_date, status |-> status]
        found == first_live_evidence(evidence, evidence_id)
        outcome == apply_evidence_update(Get(found), description, expiration_date, status)
    IN
    /\ IsIdle(p)
    /\ IF found = None
       THEN Respond(p, "update_evidence", "NotFound", arg, [detail |-> "Evidence not found"])
       ELSE IF outcome.error # None
       THEN Respond(p, "update_evidence", "Validation", arg, [detail |-> Get(outcome.error)])
       ELSE /\ req' = [req EXCEPT ![p] =
                          [op |-> "update_evidence", pc |-> "commit", arg |-> arg,
                           loaded |-> Get(found), evidence |-> outcome.evidence]]
            /\ UNCHANGED resp
    /\ UNCHANGED <<requirements, systems, mappings, evidence, blobs, nextId, now, hist>>

(* app.py 672-682 *)
update_evidence_commit(p) ==
    LET evidence_id == req[p].arg.evidence_id
    IN
    /\ At(p, "update_evidence", "commit")
    /\ can_write(p)
    /\ IF evidence_id \notin DOMAIN evidence
       THEN /\ Respond(p, "update_evidence", "ServerError", req[p].arg, NoBody)
            /\ UNCHANGED evidence
       ELSE LET row == flushed_evidence(evidence[evidence_id], req[p].loaded,
                                        req[p].evidence, now)
            IN  /\ evidence' = [evidence EXCEPT ![evidence_id] = row]
                /\ Respond(p, "update_evidence", "OK", req[p].arg,
                           [id |-> evidence_id, file_name |-> row.file_name,
                            status |-> row.status, description |-> row.description,
                            expiration_date |-> row.expiration_date,
                            updated_at |-> row.updated_at])
    /\ UNCHANGED <<requirements, systems, mappings, blobs, nextId, now, hist>>

----------------------------------------------------------------------------
(* The state after init_db and the seed script: empty tables but for the   *)
(* catalog, an empty bucket, no request in flight                          *)

InitWith(catalog) ==
    /\ requirements = catalog
    /\ systems = <<>>
    /\ mappings = <<>>
    /\ evidence = <<>>
    /\ blobs = <<>>
    /\ nextId = [system |-> 1, mapping |-> 1, evidence |-> 1]
    /\ now = 0
    /\ req = [p \in Workers |-> Idle]
    /\ resp = [op |-> "startup", kind |-> "OK", arg |-> NoBody, body |-> NoBody]
    /\ hist = <<>>

----------------------------------------------------------------------------
(* The requests the specifications send.  Each specification handles one   *)
(* request at a time (worker 1)                                            *)

(* ids that name a system, or none: every id handed out, and the next one *)
SystemIds == 1..nextId.system

(* ids that name no mapping: of rows a cascade removed, and the next one *)
MissingMappingIds == (1..nextId.mapping) \ DOMAIN mappings

Notes == {None, Some("n1"), Some("n2")}

Updaters == {None, Some("u1")}

(* fewer than k systems are registered *)
Live(k) == Cardinality(DOMAIN systems) < k

(* SpecAssign: registration and cascade deletion, for every risk category, *)
(* over the catalogs of Catalogs                                           *)
InitAssign == \E catalog \in Catalogs : InitWith(catalog)

NextAssign ==
    \E p \in {1} :
        \/ create_ai_system_invalid(p, "critical")
        \/ \E c \in RiskCategory : create_ai_system_add(p, c, None)
        \/ \E c \in RiskCategory : create_ai_system_add_fail(p, c)
        \/ create_ai_system_assign(p)
        \/ create_ai_system_assign_fail(p)
        \/ \E s \in SystemIds : get_system_compliance(p, s)
        \/ \E s \in SystemIds : delete_ai_system(p, s)

SpecAssign == InitAssign /\ [][NextAssign]_vars

(* SpecStatus: one system registered at a time, over the seed catalog;     *)
(* status updates with and without notes and updater                       *)
InitStatus == InitWith(SeedRequirements)

NextStatus ==
    \E p \in {1} :
        \/ \E c \in {"high", "minimal"} : Live(1) /\ create_ai_system_add(p, c, None)
        \/ create_ai_system_assign(p)
        \/ \E m \in DOMAIN mappings, s \in {"in_progress", "completed"}, n \in Notes,
              u \in Updaters : update_requirement_status(p, m, s, n, u)
        \/ \E m \in MissingMappingIds, n \in Notes :
                update_requirement_status(p, m, "completed", n, None)
        \/ \E s \in SystemIds : delete_ai_system(p, s)

SpecStatus == InitStatus /\ [][NextStatus]_vars

(* SpecWorkflow: one system, of either of two categories, over            *)
(* WideCatalog; every status transition, and the compliance summary       *)
InitWorkflow == InitWith(WideCatalog)

NextWorkflow ==
    \E p \in {1} :
        \/ \E c \in {"high", "limited"} : Live(1) /\ create_ai_system_add(p, c, None)
        \/ create_ai_system_assign(p)
        \/ \E m \in DOMAIN mappings, s \in ComplianceStatus :
                update_requirement_status(p, m, s, None, None)
        \/ \E m \in DOMAIN mappings \cup {nextId.mapping} :
                update_requirement_status(p, m, "done", None, None)
        \/ \E s \in SystemIds : get_system_compliance(p, s)

SpecWorkflow == InitWorkflow /\ [][NextWorkflow]_vars

(* The files and dates the upload requests carry *)
a_pdf == <<"a", ".", "p", "d", "f">>

date_2025_01_31 == <<"2", "0", "2", "5", "-", "0", "1", "-", "3", "1">>

Upload(filename, file_size, expiration_date) ==
    [filename |-> filename, file_size |-> file_size, expiration_date |-> expiration_date]

(* accepted when the mapping exists and the bucket is up *)
GoodUploads ==
    { Upload(a_pdf, 1, None),
      Upload(a_pdf, MAX_FILE_SIZE, Some(<<>>)),
      Upload(<<"b", ".", "c", ".", "P", "n", "G">>, 2, Some(date_2025_01_31)),
      Upload(<<".", "c", "s", "v">>, 1, Some(<<"2", "0", "2", "4", "-", "2", "-", "2", "9">>)) }

(* rejected for the file name or the file size *)
BadFiles ==
    { Upload(<<>>, 1, None),                                     \* no file name
      Upload(<<"a", "p", "d", "f">>, 1, None),                   \* no extension
      Upload(<<"a", ".">>, 1, None),                             \* empty extension
      Upload(<<"a", ".", "e", "x", "e">>, 1, None),              \* not allowed
      Upload(<<"p", "d", "f", ".", "e", "x", "e">>, 0, None),    \* not allowed, empty
      Upload(<<"a", ".", "p", "d", "f", "x">>, MAX_FILE_SIZE + 1,
             Some(<<"x">>)),                                     \* not allowed, too large
      Upload(a_pdf, 0, Some(date_2025_01_31)),                   \* empty
      Upload(a_pdf, MAX_FILE_SIZE + 1, None) }                   \* too large

(* a good file with a date that is not YYYY-MM-DD *)
BadDates ==
    { Upload(a_pdf, 1, Some(<<"3", "1", "/", "0", "1", "/", "2", "0", "2", "5">>)),
      Upload(a_pdf, 1, Some(<<"2", "0", "2", "5", "-", "1", "3", "-", "0", "1">>)),
      Upload(a_pdf, 1, Some(<<"2", "0", "2", "5", "-", "0", "2", "-", "2", "9">>)),
      Upload(a_pdf, 3, Some(<<"2", "5", "-", "0", "1", "-", "3", "1">>)),
      Upload(a_pdf, 1, Some(<<"2", "0", "2", "5", "-", "0", "1">>)),
      Upload(a_pdf, 1, Some(date_2025_01_31 \o <<"Z">>)) }

(* SpecUpload: one system, with one mapping or none; uploads of good and   *)
(* bad files, with good and bad dates, to a bucket that is up or down      *)
InitUpload == InitWith(SubSeq(SeedRequirements, 1, 1))

NextUpload ==
    \E p \in {1} :
        \/ \E c \in {"high", "limited"} : Live(1) /\ create_ai_system_add(p, c, None)
        \/ create_ai_system_assign(p)
        \/ \E m \in DOMAIN mappings, u \in GoodUploads :
                upload_evidence(p, m, u.filename, u.file_size, None, u.expiration_date,
                                None, TRUE)
        \/ \E m \in DOMAIN mappings, u \in BadFiles, up \in BOOLEAN :
                upload_evidence(p, m, u.filename, u.file_size, None, u.expiration_date,
                                None, up)
        \/ \E m \in DOMAIN mappings, u \in BadDates :
                upload_evidence(p, m, u.filename, u.file_size, None, u.expiration_date,
                                None, TRUE)
        \/ \E m \in DOMAIN mappings, u \in GoodUploads \cup BadDates :
                upload_evidence(p, m, u.filename, u.file_size, None, u.expiration_date,
                                None, FALSE)
        \/ \E m \in MissingMappingIds, u \in GoodUploads \cup BadFiles :
                upload_evidence(p, m, u.filename, u.file_size, None, u.expiration_date,
                                None, TRUE)

SpecUpload == InitUpload /\ [][NextUpload]_vars

(* SpecFile: one system with one mapping; uploads of files at the limits   *)
(* of size and type, and updates of the freshness status to a good and a   *)
(* bad value                                                               *)
InitFile == InitWith(SubSeq(SeedRequirements, 1, 1))

LimitFiles ==
    { Upload(a_pdf, 1, None),
      Upload(a_pdf, MAX_FILE_SIZE, None),
      Upload(a_pdf, MAX_FILE_SIZE + 1, None),
      Upload(a_pdf, 0, None),
      Upload(<<"b", ".", "c", ".", "P", "n", "G">>, 2, None),
      Upload(<<"a", ".", "p", "d", "f", "x">>, 1, None),
      Upload(<<"a", ".">>, 1, None) }

NextFile ==
    \E p \in {1} :
        \/ Live(1) /\ create_ai_system_add(p, "high", None)
        \/ create_ai_system_assign(p)
        \/ \E m \in DOMAIN mappings, u \in LimitFiles :
                upload_evidence(p, m, u.filename, u.file_size, None, u.expiration_date,
                                None, TRUE)
        \/ \E e \in DOMAIN evidence, st \in {"archived", "bogus"} :
                update_evidence(p, e, None, None, Some(st))

SpecFile == InitFile /\ [][NextFile]_vars

(* ids that name an evidence row, or none: every id handed out, and the   *)
(* next one                                                                *)
EvidenceIds == 1..nextId.evidence

(* ids that name no live evidence row *)
NotLiveEvidenceIds == {e \in EvidenceIds : first_live_evidence(evidence, e) = None}

(* SpecDelete: one system with one mapping; uploads in the first second to *)
(* a bucket that is up or down, soft deletion, every lookup of evidence,   *)
(* cascade deletion, while the clock moves on                              *)
InitDelete == InitWith(SubSeq(SeedRequirements, 1, 1))

NextDelete ==
    \/ tick
    \/ \E p \in {1} :
        \/ Live(1) /\ create_ai_system_add(p, "high", None)
        \/ create_ai_system_assign(p)
        \/ \E m \in DOMAIN mappings, up \in BOOLEAN :
                now = 0 /\ upload_evidence(p, m, a_pdf, 1, None, None, None, up)
        \/ \E e \in EvidenceIds : delete_evidence(p, e)
        \/ \E e \in EvidenceIds : get_evidence(p, e)
        \/ \E e \in EvidenceIds, up \in BOOLEAN : download_evidence(p, e, up)
        \/ \E e \in NotLiveEvidenceIds : update_evidence(p, e, None, None, Some("archived"))
        \/ \E m \in DOMAIN mappings : list_requirement_evidence(p, m, 1, 20)
        \/ \E s \in DOMAIN systems : list_system_evidence(p, s, 1, 20)
        \/ \E m \in DOMAIN mappings : get_evidence_stats(p, m)
        \/ \E s \in DOMAIN systems : delete_ai_system(p, s)

SpecDelete == InitDelete /\ [][NextDelete]_vars

(* SpecListing: one system with two mappings; uploads to both, freshness   *)
(* updates, soft deletion, and the listings page by page                   *)
InitListing == InitWith(SeedRequirements)

Pages == 1..3

PageSizes == {1, 2, 100, 101}

NextListing ==
    \E p \in {1} :
        \/ Live(1) /\ create_ai_system_add(p, "high", None)
        \/ create_ai_system_assign(p)
        \/ \E m \in DOMAIN mappings : upload_evidence(p, m, a_pdf, 1, None, None, None, TRUE)
        \/ \E e \in DOMAIN evidence : update_evidence(p, e, None, None, Some("expired"))
        \/ \E e \in DOMAIN evidence : delete_evidence(p, e)
        \/ \E m \in DOMAIN mappings, page \in Pages, page_size \in PageSizes :
                list_requirement_evidence(p, m, page, page_size)
        \/ \E s \in DOMAIN systems, page \in Pages, page_size \in PageSizes :
                list_system_evidence(p, s, page, page_size)
        \/ \E m \in 1..nextId.mapping : get_evidence_stats(p, m)

SpecListing == InitListing /\ [][NextListing]_vars

(* The update requests: description, expiration date and status, given or *)
(* not, good or bad                                                        *)
EvidenceUpdate(description, expiration_date, status) ==
    [description |-> description, expiration_date |-> expiration_date, status |-> status]

bad_date == <<"3", "1", "/", "0", "1", "/", "2", "0", "2", "5">>

GoodUpdates ==
    { EvidenceUpdate(None, None, None),
      EvidenceUpdate(Some("d1"), None, None),
      EvidenceUpdate(None, Some(date_2025_01_31), Some("expired")) }

BadUpdates ==
    { EvidenceUpdate(Some("d1"), Some(bad_date), None),
      EvidenceUpdate(Some("d1"), Some(<<>>), Some("expired")),
      EvidenceUpdate(None, Some(date_2025_01_31), Some("Expired")) }

(* SpecEvidenceUpdate: one system with one mapping; uploads in the first   *)
(* second, and updates of evidence with fields given or not, while the     *)
(* clock moves on                                                          *)
InitEvidenceUpdate == InitWith(SubSeq(SeedRequirements, 1, 1))

NextEvidenceUpdate ==
    \/ tick
    \/ \E p \in {1} :
        \/ Live(1) /\ create_ai_system_add(p, "high", None)
        \/ create_ai_system_assign(p)
        \/ \E m \in DOMAIN mappings :
                now = 0 /\ upload_evidence(p, m, a_pdf, 1, None, None, None, TRUE)
        \/ \E e \in EvidenceIds, u \in GoodUpdates :
                update_evidence(p, e, u.description, u.expiration_date, u.status)

SpecEvidenceUpdate == InitEvidenceUpdate /\ [][NextEvidenceUpdate]_vars

(* SpecEvidenceReject: one system with one mapping; uploads, and updates   *)
(* of evidence that carry a bad date or a bad status next to good fields   *)
InitEvidenceReject == InitWith(SubSeq(SeedRequirements, 1, 1))

NextEvidenceReject ==
    \E p \in {1} :
        \/ Live(1) /\ create_ai_system_add(p, "high", None)
        \/ create_ai_system_assign(p)
        \/ \E m \in DOMAIN mappings :
                upload_evidence(p, m, a_pdf, 1, None, None, None, TRUE)
        \/ \E e \in DOMAIN evidence :
                update_evidence(p, e, Some("d1"), None, None)
        \/ \E e \in EvidenceIds, u \in BadUpdates :
                update_evidence(p, e, u.description, u.expiration_date, u.status)
        \/ \E e \in DOMAIN evidence : delete_evidence(p, e)

SpecEvidenceReject == InitEvidenceReject /\ [][NextEvidenceReject]_vars

(* ids that name no system: of rows a cascade removed, and the next one *)
MissingSystemIds == SystemIds \ DOMAIN systems

(* SpecCascade: two systems with one mapping each; uploads, soft deletion, *)
(* cascade deletion, and every request that names a system, a mapping or   *)
(* an evidence record, on the ids of rows that were removed                *)
InitCascade == InitWith(SubSeq(SeedRequirements, 1, 1))

NextCascade ==
    \E p \in {1} :
        \/ create_ai_system_add(p, "high", None)
        \/ create_ai_system_assign(p)
        \/ \E m \in DOMAIN mappings : upload_evidence(p, m, a_pdf, 1, None, None, None, TRUE)
        \/ \E s \in DOMAIN systems : delete_ai_system(p, s)
        \/ \E s \in SystemIds : get_ai_system(p, s)
        \/ \E s \in MissingSystemIds : get_system_requirements(p, s)
        \/ \E s \in MissingSystemIds : get_system_compliance(p, s)
        \/ \E s \in MissingSystemIds : list_system_evidence(p, s, 1, 20)
        \/ \E s \in MissingSystemIds : delete_ai_system(p, s)
        \/ \E m \in MissingMappingIds : update_requirement_status(p, m, "completed", None, None)
        \/ \E m \in MissingMappingIds : list_requirement_evidence(p, m, 1, 20)
        \/ \E m \in MissingMappingIds : get_evidence_stats(p, m)
        \/ \E m \in MissingMappingIds : upload_evidence(p, m, a_pdf, 1, None, None, None, TRUE)
        \/ \E e \in NotLiveEvidenceIds : get_evidence(p, e)
        \/ \E e \in NotLiveEvidenceIds : download_evidence(p, e, TRUE)
        \/ \E e \in NotLiveEvidenceIds : update_evidence(p, e, Some("d1"), None, None)
        \/ \E e \in EvidenceIds : delete_evidence(p, e)

SpecCascade == InitCascade /\ [][NextCascade]_vars

(* SpecTransaction: one system with two mappings; cascade deletions that   *)
(* run statement by statement and may fail at each, next to uploads and    *)
(* listings of other requests                                              *)
InitTransaction == InitWith(SeedRequirements)

NextTransaction ==
    \E p \in Workers :
        \/ Live(1) /\ can_write(p) /\ create_ai_system_add(p, "high", None)
        \/ can_write(p) /\ create_ai_system_assign(p)
        \/ \E m \in DOMAIN mappings :
                /\ can_write(p) /\ nextId.evidence <= MaxUploads
                /\ upload_evidence(p, m, a_pdf, 1, None, None, None, TRUE)
        \/ \E s \in DOMAIN systems : list_system_evidence(p, s, 1, 20)
        \/ \E s \in DOMAIN systems : delete_ai_system_query(p, s)
        \/ delete_ai_system_evidence(p)
        \/ delete_ai_system_mappings(p)
        \/ delete_ai_system_commit(p)
        \/ delete_ai_system_fail(p)

SpecTransaction == InitTransaction /\ [][NextTransaction]_vars

(* SpecConcurrentStatus: one system with one mapping; status updates of    *)
(* overlapping requests, each loading the row and committing later         *)
InitConcurrentStatus == InitWith(SubSeq(SeedRequirements, 1, 1))

NextConcurrentStatus ==
    \E p \in Workers :
        \/ Live(1) /\ create_ai_system_add(p, "high", None)
        \/ create_ai_system_assign(p)
        \/ \E m \in DOMAIN mappings, s \in {"not_started", "completed"},
              n \in {None, Some("n1")} :
                update_requirement_status_query(p, m, s, n, None)
        \/ update_requirement_status_commit(p)

SpecConcurrentStatus == InitConcurrentStatus /\ [][NextConcurrentStatus]_vars

(* The names of the files whose storage keys are compared: with and        *)
(* without path separators                                                 *)
KeyFilenames ==
    { a_pdf,
      <<"a", "/", "b", ".", "p", "d", "f">>,
      <<"a", "\\", "b", ".", "p", "d", "f">>,
      <<"a", "_", "b", ".", "p", "d", "f">>,
      <<"b", ".", "p", "d", "f">> }

(* SpecKey: one system with one mapping; uploads of files of these names,  *)
(* in the same second and in different seconds                             *)
InitKey == InitWith(SubSeq(SeedRequirements, 1, 1))

NextKey ==
    \/ tick
    \/ \E p \in {1} :
        \/ Live(1) /\ create_ai_system_add(p, "high", None)
        \/ create_ai_system_assign(p)
        \/ \E m \in DOMAIN mappings, f \in KeyFilenames :
                upload_evidence(p, m, f, 1, None, None, None, TRUE)

SpecKey == InitKey /\ [][NextKey]_vars

(* SpecSeed: the tables are empty; the seed script is run, once or several *)
(* times, one run after the other or side by side, and systems are         *)
(* registered over the catalog it leaves                                   *)
InitSeed == InitWith(<<>>)

NextSeed ==
    \E p \in Workers :
        \/ seed_query(p)
        \/ seed_commit(p)
        \/ \E c \in {"high", "limited"} : Live(1) /\ create_ai_system_add(p, c, None)
        \/ create_ai_system_assign(p)
        \/ \E s \in DOMAIN systems : get_system_compliance(p, s)
        \/ \E s \in DOMAIN systems : delete_ai_system(p, s)

SpecSeed == InitSeed /\ [][NextSeed]_vars

date_2024_02_29 == <<"2", "0", "2", "4", "-", "0", "2", "-", "2", "9">>

(* The updates of evidence that name one field each *)
FieldUpdates ==
    { EvidenceUpdate(Some("d1"), None, None),
      EvidenceUpdate(None, Some(date_2025_01_31), None),
      EvidenceUpdate(None, None, Some("expired")) }

(* SpecFrame: up to two systems side by side, with one mapping each; every *)
(* request that writes and every request that reads, one at a time         *)
InitFrame == InitWith(SubSeq(SeedRequirements, 1, 1))

NextFrame ==
    \E p \in {1} :
        \/ Live(2) /\ create_ai_system_add(p, "high", None)
        \/ create_ai_system_assign(p)
        \/ \E m \in DOMAIN mappings :
                update_requirement_status(p, m, "completed", Some("n1"), Some("u1"))
        \/ \E m \in DOMAIN mappings :
                /\ nextId.evidence <= MaxUploads
                /\ upload_evidence(p, m, a_pdf, 1, None, None, None, TRUE)
        \/ \E e \in DOMAIN evidence : update_evidence(p, e, Some("d1"), None, None)
        \/ \E e \in DOMAIN evidence : delete_evidence(p, e)
        \/ \E s \in DOMAIN systems : get_system_compliance(p, s)
        \/ \E s \in DOMAIN systems : get_system_requirements(p, s)
        \/ \E m \in DOMAIN mappings : list_requirement_evidence(p, m, 1, 20)
        \/ \E s \in DOMAIN systems : list_system_evidence(p, s, 1, 20)
        \/ \E e \in DOMAIN evidence : get_evidence(p, e)
        \/ \E m \in DOMAIN mappings : get_evidence_stats(p, m)
        \/ \E e \in DOMAIN evidence : download_evidence(p, e, TRUE)
        \/ \E s \in DOMAIN systems : delete_ai_system(p, s)

SpecFrame == InitFrame /\ [][NextFrame]_vars

(* SpecFreshness: one system with one mapping and one evidence record,     *)
(* uploaded with an expiration date; updates of one field each, soft       *)
(* deletion, reads, and status updates of the mapping, while the clock     *)
(* moves on                                                                *)
InitFreshness == InitWith(SubSeq(SeedRequirements, 1, 1))

NextFreshness ==
    \/ tick
    \/ \E p \in {1} :
        \/ Live(1) /\ create_ai_system_add(p, "high", None)
        \/ create_ai_system_assign(p)
        \/ \E m \in DOMAIN mappings :
                /\ evidence = <<>>
                /\ upload_evidence(p, m, a_pdf, 1, None, Some(date_2024_02_29), None, TRUE)
        \/ \E e \in DOMAIN evidence, u \in FieldUpdates :
                update_evidence(p, e, u.description, u.expiration_date, u.status)
        \/ \E e \in DOMAIN evidence : delete_evidence(p, e)
        \/ \E e \in DOMAIN evidence : get_evidence(p, e)
        \/ \E m \in DOMAIN mappings : update_requirement_status(p, m, "completed", None, None)

SpecFreshness == InitFreshness /\ [][NextFreshness]_vars

(* SpecUploadCascade: one system with one mapping; uploads and cascade     *)
(* deletions of overlapping requests, each step by step, on a database     *)
(* that checks foreign keys or does not                                    *)
InitUploadCascade == InitWith(SubSeq(SeedRequirements, 1, 1))

NextUploadCascade ==
    \E p \in Workers :
        \/ Live(1) /\ can_write(p) /\ create_ai_system_add(p, "high", None)
        \/ can_write(p) /\ create_ai_system_assign(p)
        \/ \E m \in DOMAIN mappings :
                /\ nextId.evidence <= MaxUploads
                /\ upload_evidence_query(p, m, a_pdf, 1, None, TRUE)
        \/ upload_evidence_put(p)
        \/ \E foreign_keys \in BOOLEAN : upload_evidence_commit(p, foreign_keys)
        \/ \E s \in DOMAIN systems : delete_ai_system_query(p, s)
        \/ delete_ai_system_evidence(p)
        \/ delete_ai_system_mappings(p)
        \/ delete_ai_system_commit(p)

SpecUploadCascade == InitUploadCascade /\ [][NextUploadCascade]_vars

(* SpecConcurrentEvidence: one system with one mapping and one evidence    *)
(* record; soft deletions and                                              *)
(* updates of evidence by overlapping requests, each loading the live row  *)
(* and committing later, while the clock moves on                          *)
InitConcurrentEvidence == InitWith(SubSeq(SeedRequirements, 1, 1))

NextConcurrentEvidence ==
    \/ tick
    \/ \E p \in Workers :
        \/ Live(1) /\ create_ai_system_add(p, "high", None)
        \/ create_ai_system_assign(p)
        \/ \E m \in DOMAIN mappings :
                /\ evidence = <<>>
                /\ upload_evidence(p, m, a_pdf, 1, None, None, None, TRUE)
        \/ \E e \in DOMAIN evidence : delete_evidence_query(p, e)
        \/ delete_evidence_commit(p)
        \/ \E e \in DOMAIN evidence : update_evidence_query(p, e, Some("d1"), None, None)
        \/ update_evidence_commit(p)

SpecConcurrentEvidence == InitConcurrentEvidence /\ [][NextConcurrentEvidence]_vars

(* Spec: up to two systems side by side over the seed catalog, and every  *)
(* operation that writes: registration (which may fail half way), status   *)
(* updates, evidence upload and deletion, cascade deletion                 *)
Init == InitWith(SeedRequirements)

Next ==
    \E p \in {1} :
        \/ \E c \in {"high", "minimal"} : Live(2) /\ create_ai_system_add(p, c, None)
        \/ create_ai_system_assign(p)
        \/ create_ai_system_assign_fail(p)
        \/ \E m \in DOMAIN mappings : update_requirement_status(p, m, "completed", None, None)
        \/ \E m \in MissingMappingIds :
                update_requirement_status(p, m, "completed", Some("n1"), Some("u1"))
        \/ \E m \in DOMAIN mappings :
                /\ nextId.evidence <= MaxUploads
                /\ upload_evidence(p, m, a_pdf, 1, None, None, None, TRUE)
        \/ \E e \in 1..nextId.evidence : delete_evidence(p, e)
        \/ \E s \in SystemIds : delete_ai_system(p, s)

Spec == Init /\ [][Next]_vars

----------------------------------------------------------------------------
(* Properties *)

Range(list) == {list[i] : i \in 1..Len(list)}

Abs(x) == IF x < 0 THEN -x ELSE x

MappingsOf(s) == {m \in DOMAIN mappings : mappings[m].ai_system_id = s}

RequirementsOf(s) == {mappings[m].requirement_id : m \in MappingsOf(s)}

CountOf(s, status) == Cardinality({m \in MappingsOf(s) : mappings[m].status = status})

(* system s has one mapping for each catalog row that applies to its risk  *)
(* category, and no other mapping                                          *)
Assigned(s) ==
    /\ \A r \in 1..Len(requirements) :
          Cardinality({m \in MappingsOf(s) :
                          mappings[m].requirement_id = requirements[r].id})
            = IF systems[s].risk_category \in Range(requirements[r].applies_to)
              THEN 1 ELSE 0
    /\ \A m \in MappingsOf(s) :
          \E r \in 1..Len(requirements) : mappings[m].requirement_id = requirements[r].id

(* C1: a successful create_ai_system with category R leaves the new system *)
(* with exactly one mapping, in status not_started, for each catalog       *)
(* requirement whose applies_to holds R and with no other mapping; every   *)
(* system that has mappings has exactly the set its own category selects.  *)
C1_AssignsExactlyApplicable ==
    /\ (resp.op = "create_ai_system" /\ resp.kind = "OK") =>
          /\ resp.body.id \in DOMAIN systems
          /\ systems[resp.body.id].risk_category = resp.arg.risk_category
          /\ Assigned(resp.body.id)
          /\ resp.body.requirements_assigned = Cardinality(MappingsOf(resp.body.id))
    /\ \A s \in DOMAIN systems :
          MappingsOf(s) # {} =>
              /\ Assigned(s)
              /\ \A m \in MappingsOf(s) : mappings[m].status = NOT_STARTED

(* two systems of different categories, registered from one catalog, each  *)
(* with its own set of requirements                                        *)
C1_Witness ==
    /\ resp.op = "create_ai_system" /\ resp.kind = "OK"
    /\ \E s1, s2 \in DOMAIN systems :
          /\ systems[s1].risk_category # systems[s2].risk_category
          /\ RequirementsOf(s1) # {} /\ RequirementsOf(s2) # {}
          /\ RequirementsOf(s1) # RequirementsOf(s2)
          /\ RequirementsOf(s1) \cap RequirementsOf(s2) # {}

(* C2: registration and assignment are one atomic unit: in no committed    *)
(* state, during a create_ai_system or after one that failed, is there a   *)
(* system row without the complete set of mappings of its risk category.   *)
C2_RegistrationAtomic == \A s \in DOMAIN systems : Assigned(s)

(* C4: after N >= 1 status updates of one mapping its status is the one    *)
(* the N-th call gave, its notes are those of the last call that gave      *)
(* notes (the stored value if none did), and likewise its updated_by.      *)
C4_LastWriterWins ==
    \A m \in DOMAIN mappings :
        /\ hist[m].status # None => mappings[m].status = Get(hist[m].status)
        /\ mappings[m].notes = hist[m].notes
        /\ mappings[m].updated_by = hist[m].updated_by

(* a call that gives neither notes nor updater, on a mapping that has both *)
C4_Witness ==
    /\ resp.op = "update_requirement_status" /\ resp.kind = "OK"
    /\ resp.arg.notes = None /\ resp.arg.updated_by = None
    /\ resp.body.old_status # resp.arg.status
    /\ mappings[resp.arg.mapping_id].notes = Some("n2")
    /\ mappings[resp.arg.mapping_id].updated_by = Some("u1")

(* C5: the workflow is total: on an existing mapping in any status, an     *)
(* update to any of the four statuses succeeds and sets it; a status is    *)
(* always one of the four, and not_started until the first update.         *)
C5_TotalWorkflow ==
    /\ [](\A m \in DOMAIN mappings :
            /\ mappings[m].status \in ComplianceStatus
            /\ hist[m].status = None => mappings[m].status = NOT_STARTED)
    /\ [][\A m \in DOMAIN mappings :
            (/\ resp' # resp
             /\ resp'.op = "update_requirement_status"
             /\ resp'.arg.mapping_id = m
             /\ resp'.arg.status \in ComplianceStatus)
            => /\ resp'.kind = "OK"
               /\ resp'.body.old_status = mappings[m].status
               /\ m \in DOMAIN mappings'
               /\ mappings'[m].status = resp'.arg.status]_vars

(* a backward move: a completed mapping set back to not_started *)
C5_Witness ==
    /\ resp.op = "update_requirement_status" /\ resp.kind = "OK"
    /\ resp.body.old_status = "completed"
    /\ resp.arg.status = "not_started"
    /\ mappings[resp.arg.mapping_id].status = "not_started"

(* C7: for a system with mappings the summary gives their number as total, *)
(* a breakdown over all four statuses with the per-status numbers, summing *)
(* to total, and completed / total * 100 to the nearest hundredth; counts  *)
(* completed 2, in_progress 1, not_started 1 give total 4 and 50.00.       *)
C7_ComplianceSummary ==
    (/\ resp.op = "get_system_compliance" /\ resp.kind = "OK"
     /\ MappingsOf(resp.arg.system_id) # {})
    => LET s == resp.arg.system_id
           total == resp.body.total_requirements
           breakdown == resp.body.status_breakdown
           percentage == resp.body.compliance_percentage
       IN  /\ total = Cardinality(MappingsOf(s))
           /\ DOMAIN breakdown = ComplianceStatus
           /\ \A status \in ComplianceStatus : breakdown[status] = CountOf(s, status)
           /\ breakdown["not_started"] + breakdown["in_progress"]
                + breakdown["completed"] + breakdown["non_compliant"] = total
           /\ 2 * Abs(percentage * total - 10000 * CountOf(s, "completed")) <= total
           /\ (/\ CountOf(s, "completed") = 2 /\ CountOf(s, "in_progress") = 1
               /\ CountOf(s, "not_started") = 1 /\ CountOf(s, "non_compliant") = 0)
              => total = 4 /\ percentage = 5000

C7_Witness ==
    /\ resp.op = "get_system_compliance" /\ resp.kind = "OK"
    /\ CountOf(resp.arg.system_id, "completed") = 2
    /\ CountOf(resp.arg.system_id, "in_progress") = 1
    /\ CountOf(resp.arg.system_id, "not_started") = 1
    /\ resp.body.status_breakdown["non_compliant"] = 0
    /\ resp.body.compliance_percentage = 5000

(* C8: for a registered system without mappings the summary succeeds with  *)
(* total 0, percentage 0 and an empty breakdown.                           *)
C8_EmptySummary ==
    [][(/\ resp' # resp
        /\ resp'.op = "get_system_compliance"
        /\ resp'.arg.system_id \in DOMAIN systems
        /\ MappingsOf(resp'.arg.system_id) = {})
       => /\ resp'.kind = "OK"
          /\ resp'.body = [total_requirements |-> 0, compliance_percentage |-> 0,
                           status_breakdown |-> <<>>]]_vars

(* a system whose category no row of a non-empty catalog applies to *)
C8_Witness ==
    /\ resp.op = "get_system_compliance" /\ resp.kind = "OK"
    /\ resp.body.total_requirements = 0
    /\ resp.body.status_breakdown = <<>>
    /\ requirements # <<>>
    /\ IsIdle(1)
    /\ \A r \in 1..Len(requirements) :
          systems[resp.arg.system_id].risk_category \notin Range(requirements[r].applies_to)

(* C3: in every reachable state no two mapping rows share their (system,   *)
(* requirement) pair.                                                      *)
C3_UniqueMappingPerPair ==
    \A m1, m2 \in DOMAIN mappings :
        (/\ mappings[m1].ai_system_id = mappings[m2].ai_system_id
         /\ mappings[m1].requirement_id = mappings[m2].requirement_id) => m1 = m2

(* two systems registered side by side, both mapped to the same            *)
(* requirement, one mapping completed, evidence uploaded                   *)
C3_Witness ==
    /\ Cardinality(DOMAIN systems) = 2
    /\ \A s \in DOMAIN systems : MappingsOf(s) # {}
    /\ \E m1, m2 \in DOMAIN mappings :
          /\ m1 # m2
          /\ mappings[m1].requirement_id = mappings[m2].requirement_id
          /\ mappings[m1].status = "completed"
    /\ evidence # <<>>
    /\ resp.op = "create_ai_system" /\ resp.kind = "OK"

(* C6: update_requirement_status with a valid status and an id that names  *)
(* no mapping row answers NotFound, and the system, mapping and evidence   *)
(* rows (and the bucket) are as they were.                                 *)
C6_MissingMappingNotFound ==
    [][(/\ resp' # resp
        /\ resp'.op = "update_requirement_status"
        /\ resp'.arg.status \in ComplianceStatus
        /\ resp'.arg.mapping_id \notin DOMAIN mappings)
       => /\ resp'.kind = "NotFound"
          /\ UNCHANGED <<systems, mappings, evidence, blobs>>]_vars

(* the id of a mapping that a cascade delete removed, while another        *)
(* system, its mappings and evidence are stored                            *)
C6_Witness ==
    /\ resp.op = "update_requirement_status" /\ resp.kind = "NotFound"
    /\ resp.arg.mapping_id < nextId.mapping
    /\ resp.arg.mapping_id \notin DOMAIN mappings
    /\ mappings # <<>>
    /\ evidence # <<>>

(* what follows the last "." of a file name, in lower case; <<>> when the  *)
(* name has no "."                                                         *)
ExtensionOf(filename) ==
    IF \E i \in 1..Len(filename) : filename[i] = "."
    THEN LET i == CHOOSE k \in 1..Len(filename) :
                      filename[k] = "." /\ \A j \in (k + 1)..Len(filename) : filename[j] # "."
         IN  lower(SubSeq(filename, i + 1, Len(filename)))
    ELSE <<>>

AllowedTypes ==
    { <<"p", "d", "f">>, <<"p", "n", "g">>, <<"j", "p", "g">>, <<"j", "p", "e", "g">>,
      <<"x", "l", "s", "x">>, <<"d", "o", "c", "x">>, <<"c", "s", "v">> }

MiB == 1048576

(* C9: an upload to an existing mapping whose file name has no extension   *)
(* or one outside the allowed types (compared in lower case), or whose     *)
(* content is empty or larger than 25 MiB, answers Validation; an upload   *)
(* to a missing mapping answers NotFound; either way no evidence row is    *)
(* created and no blob is written.                                         *)
C9_RejectedUploadChangesNothing ==
    [][(resp' # resp /\ resp'.op = "upload_evidence")
       => LET upload == resp'.arg
          IN  /\ upload.mapping_id \notin DOMAIN mappings
                   => /\ resp'.kind = "NotFound"
                      /\ UNCHANGED <<systems, mappings, evidence, blobs>>
              /\ (/\ upload.mapping_id \in DOMAIN mappings
                  /\ \/ ExtensionOf(upload.filename) \notin AllowedTypes
                     \/ upload.file_size = 0
                     \/ upload.file_size > 25 * MiB)
                   => /\ resp'.kind = "Validation"
                      /\ UNCHANGED <<systems, mappings, evidence, blobs>>]_vars

(* a file of 25 MiB and one byte is rejected after one was accepted *)
C9_Witness ==
    /\ resp.op = "upload_evidence" /\ resp.kind = "Validation"
    /\ resp.arg.file_size = 25 * MiB + 1
    /\ ExtensionOf(resp.arg.filename) \in AllowedTypes
    /\ resp.arg.s3_up
    /\ evidence # <<>>
    /\ blobs # <<>>

(* C10: an upload that passes the mapping, extension and size checks, to a *)
(* bucket that is up, with an expiration date that is not YYYY-MM-DD,      *)
(* answers Validation, creates no evidence row and writes no blob.         *)
C10_BadDateChangesNothing ==
    [][(/\ resp' # resp
        /\ resp'.op = "upload_evidence"
        /\ resp'.arg.mapping_id \in DOMAIN mappings
        /\ ExtensionOf(resp'.arg.filename) \in AllowedTypes
        /\ resp'.arg.file_size \in 1..(25 * MiB)
        /\ resp'.arg.s3_up
        /\ resp'.arg.expiration_date \notin {None, Some(<<>>)}
        /\ strptime_date(Get(resp'.arg.expiration_date)) = None)
       => /\ resp'.kind = "Validation"
          /\ UNCHANGED <<evidence, blobs>>]_vars

(* C11: in every reachable state the storage key of every evidence row    *)
(* (live or soft-deleted) names an object of the bucket; and an upload     *)
(* whose blob write fails answers with a storage error and creates no row. *)
C11_NoDanglingKey ==
    /\ [](\A e \in DOMAIN evidence : evidence[e].s3_key \in DOMAIN blobs)
    /\ [][(/\ resp' # resp
            /\ resp'.op = "upload_evidence"
            /\ resp'.arg.mapping_id \in DOMAIN mappings
            /\ ExtensionOf(resp'.arg.filename) \in AllowedTypes
            /\ resp'.arg.file_size \in 1..(25 * MiB)
            /\ ~resp'.arg.s3_up)
           => /\ resp'.kind = "StorageFailure"
              /\ UNCHANGED <<evidence, blobs>>]_vars

(* a live and a soft-deleted row, after an upload that the bucket refused *)
C11_Witness ==
    /\ resp.op = "upload_evidence" /\ resp.kind = "StorageFailure"
    /\ \E e1, e2 \in DOMAIN evidence :
          /\ evidence[e1].deleted_at = None
          /\ evidence[e2].deleted_at # None
          /\ evidence[e1].s3_key \in DOMAIN blobs

(* C12: a successful upload to mapping m adds exactly one evidence row: it *)
(* is live, its file_size is the length of the content, its file_type the  *)
(* extension in lower case, its status current, its mapping m and its      *)
(* system the one that owns m; every other evidence row is as it was.      *)
C12_UploadCreatesOneRow ==
    [][(resp' # resp /\ resp'.op = "upload_evidence" /\ resp'.kind = "OK")
       => LET upload == resp'.arg
              new == DOMAIN evidence' \ DOMAIN evidence
          IN  /\ Cardinality(new) = 1
              /\ DOMAIN evidence \subseteq DOMAIN evidence'
              /\ \A e \in DOMAIN evidence : evidence'[e] = evidence[e]
              /\ \A e \in new :
                    /\ evidence'[e].deleted_at = None
                    /\ evidence'[e].file_size = upload.file_size
                    /\ evidence'[e].file_type = ExtensionOf(upload.filename)
                    /\ evidence'[e].status = "current"
                    /\ evidence'[e].requirement_mapping_id = upload.mapping_id
                    /\ evidence'[e].ai_system_id = mappings[upload.mapping_id].ai_system_id
                    /\ resp'.body.id = e
                    /\ resp'.body.file_size = upload.file_size]_vars

(* a second row, for a file whose extension was typed in mixed case *)
C12_Witness ==
    /\ resp.op = "upload_evidence" /\ resp.kind = "OK"
    /\ resp.arg.filename = <<"b", ".", "c", ".", "P", "n", "G">>
    /\ Cardinality(DOMAIN evidence) = 2
    /\ evidence[resp.body.id].file_type = <<"p", "n", "g">>
    /\ evidence[resp.body.id].file_size = 2

(* C13: in every reachable state every evidence row has a file_size of 1  *)
(* to 26214400 bytes (25 MiB), a file_type of the allow-list, and one of   *)
(* the four freshness statuses.                                            *)
C13_EvidenceWellFormed ==
    \A e \in DOMAIN evidence :
        /\ evidence[e].file_size \in 1..26214400
        /\ evidence[e].file_type \in AllowedTypes
        /\ evidence[e].status \in {"current", "expiring_soon", "expired", "archived"}

(* a row of the largest size and an archived row, after an update to an    *)
(* unknown status was refused                                              *)
C13_Witness ==
    /\ resp.op = "update_evidence" /\ resp.kind = "Validation"
    /\ resp.arg.status = Some("bogus")
    /\ \E e1, e2 \in DOMAIN evidence :
          /\ evidence[e1].file_size = 26214400
          /\ evidence[e2].status = "archived"

(* the evidence rows that delete_evidence has soft-deleted *)
SoftDeleted == {e \in DOMAIN evidence : evidence[e].deleted_at # None}

ItemIds(items) == {items[k].id : k \in 1..Len(items)}

(* C14: once delete_evidence has succeeded on e, no listing of its mapping *)
(* or system holds e or counts it in total, get_evidence_stats does not    *)
(* count it, and get_evidence, download_evidence and update_evidence on e  *)
(* answer NotFound.                                                        *)
C14_DeletedIsInvisible ==
    [][(resp' # resp)
       => /\ (resp'.op = "list_requirement_evidence" /\ resp'.kind = "OK")
                => /\ ItemIds(resp'.body.items) \cap SoftDeleted = {}
                   /\ resp'.body.total
                        = Cardinality({e \in DOMAIN evidence \ SoftDeleted :
                             evidence[e].requirement_mapping_id = resp'.arg.mapping_id})
          /\ (resp'.op = "list_system_evidence" /\ resp'.kind = "OK")
                => /\ ItemIds(resp'.body.items) \cap SoftDeleted = {}
                   /\ resp'.body.total
                        = Cardinality({e \in DOMAIN evidence \ SoftDeleted :
                             evidence[e].ai_system_id = resp'.arg.system_id})
          /\ (resp'.op = "get_evidence_stats" /\ resp'.kind = "OK")
                => resp'.body.total
                        = Cardinality({e \in DOMAIN evidence \ SoftDeleted :
                             evidence[e].requirement_mapping_id = resp'.arg.mapping_id})
          /\ (/\ resp'.op \in {"get_evidence", "download_evidence", "update_evidence"}
              /\ resp'.arg.evidence_id \in SoftDeleted)
                => resp'.kind = "NotFound" /\ UNCHANGED evidence]_vars

(* a listing that shows one of two rows: the other is soft-deleted *)
C14_Witness ==
    /\ resp.op = "list_requirement_evidence" /\ resp.kind = "OK"
    /\ resp.body.total = 1
    /\ Cardinality(DOMAIN evidence) = 2
    /\ Cardinality(SoftDeleted) = 1
    /\ ItemIds(resp.body.items) = DOMAIN evidence \ SoftDeleted

(* C15: delete_evidence on the id of a live record succeeds; on an id      *)
(* whose record is soft-deleted (or that names none) it answers NotFound   *)
(* and changes nothing, so that the timestamp of the first delete stays.   *)
C15_DeleteOnce ==
    [][(resp' # resp /\ resp'.op = "delete_evidence")
       => LET e == resp'.arg.evidence_id
          IN  IF e \in DOMAIN evidence /\ evidence[e].deleted_at = None
              THEN resp'.kind = "OK" /\ evidence'[e].deleted_at # None
              ELSE resp'.kind = "NotFound" /\ UNCHANGED <<evidence, blobs>>]_vars

(* the second delete, a second after the first *)
C15_Witness ==
    /\ resp.op = "delete_evidence" /\ resp.kind = "NotFound"
    /\ resp.arg.evidence_id \in SoftDeleted
    /\ evidence[resp.arg.evidence_id].deleted_at = Some(0)
    /\ now = 1

(* C16 as claimed: delete_evidence on a live record changes nothing but    *)
(* the deleted_at of that record.                                          *)
C16_OnlyDeletedAtChanges ==
    [][(resp' # resp /\ resp'.op = "delete_evidence" /\ resp'.kind = "OK")
       => LET e == resp'.arg.evidence_id
          IN  /\ evidence' = [evidence EXCEPT ![e].deleted_at = evidence'[e].deleted_at]
              /\ UNCHANGED <<blobs, mappings, systems>>]_vars

(* C16, amended: delete_evidence on a live record sets the deleted_at of   *)
(* that record and refreshes its updated_at; the row is kept with every    *)
(* other field unchanged, the bucket is unchanged and still holds the      *)
(* record's blob, and every other evidence row, every mapping and every    *)
(* system is unchanged.                                                    *)
C16_OnlyTimestampsChange ==
    [][(resp' # resp /\ resp'.op = "delete_evidence" /\ resp'.kind = "OK")
       => LET e == resp'.arg.evidence_id
          IN  /\ e \in DOMAIN evidence'
              /\ evidence'[e].deleted_at = Some(now)
              /\ evidence' = [evidence EXCEPT ![e].deleted_at = evidence'[e].deleted_at,
                                              ![e].updated_at = evidence'[e].updated_at]
              /\ evidence'[e].s3_key \in DOMAIN blobs'
              /\ UNCHANGED <<blobs, mappings, systems>>]_vars

(* a record deleted a second after its upload, next to a live one *)
C16_Witness ==
    /\ resp.op = "delete_evidence" /\ resp.kind = "OK"
    /\ resp.arg.evidence_id \in SoftDeleted
    /\ evidence[resp.arg.evidence_id].deleted_at = Some(1)
    /\ evidence[resp.arg.evidence_id].created_at[1] = 0
    /\ DOMAIN evidence \ SoftDeleted # {}
    /\ blobs # <<>>

(* row e1 was created after row e2 *)
Newer(e1, e2) ==
    \/ evidence[e1].created_at[1] > evidence[e2].created_at[1]
    \/ /\ evidence[e1].created_at[1] = evidence[e2].created_at[1]
       /\ evidence[e1].created_at[2] > evidence[e2].created_at[2]

Min(a, b) == IF a < b THEN a ELSE b

(* items is page `page`, of size `size`, of the rows of live, newest first: *)
(* the item at place k of the page has (page - 1) * size + k - 1 newer     *)
(* rows of live before it, and the page is full unless the rows end        *)
IsPage(items, live, page, size) ==
    /\ Len(items) = Min(size, IF Cardinality(live) > (page - 1) * size
                              THEN Cardinality(live) - (page - 1) * size ELSE 0)
    /\ \A k \in 1..Len(items) :
          /\ items[k].id \in live
          /\ Cardinality({e \in live : Newer(e, items[k].id)}) = (page - 1) * size + k - 1

(* C17: for an existing mapping or system, page p >= 1 and page size       *)
(* s >= 1, the listing answers with page size min(s, 100), with the live   *)
(* evidence of that owner at places (p-1)*min(s,100) to p*min(s,100)-1 of  *)
(* the newest-first order, and with total the number of all live evidence  *)
(* rows of that owner.                                                     *)
C17_ListingPages ==
    [][(/\ resp' # resp
        /\ resp'.op \in {"list_requirement_evidence", "list_system_evidence"}
        /\ resp'.kind = "OK")
       => LET live == IF resp'.op = "list_requirement_evidence"
                      THEN {e \in DOMAIN evidence \ SoftDeleted :
                              evidence[e].requirement_mapping_id = resp'.arg.mapping_id}
                      ELSE {e \in DOMAIN evidence \ SoftDeleted :
                              evidence[e].ai_system_id = resp'.arg.system_id}
              size == Min(resp'.arg.page_size, 100)
          IN  /\ resp'.body.page_size = size
              /\ resp'.body.page = resp'.arg.page
              /\ resp'.body.total = Cardinality(live)
              /\ IsPage(resp'.body.items, live, resp'.arg.page, size)]_vars

(* the second page of size 1 of a system with two live rows, one for each  *)
(* of its mappings: it holds the older row                                 *)
C17_Witness ==
    /\ resp.op = "list_system_evidence" /\ resp.kind = "OK"
    /\ resp.arg.page = 2 /\ resp.arg.page_size = 1
    /\ resp.body.total = 2
    /\ Len(resp.body.items) = 1
    /\ resp.body.items[1].id = 1
    /\ evidence[1].requirement_mapping_id # evidence[2].requirement_mapping_id

(* C18: for an existing mapping get_evidence_stats gives, for each of the  *)
(* four freshness statuses, the number of live evidence rows of the        *)
(* mapping in that status (0 when there is none), and as total their sum,  *)
(* which is the number of live rows of the mapping, the total of its       *)
(* listing.                                                                *)
C18_EvidenceStats ==
    [][(resp' # resp /\ resp'.op = "get_evidence_stats" /\ resp'.kind = "OK")
       => LET live == {e \in DOMAIN evidence \ SoftDeleted :
                          evidence[e].requirement_mapping_id = resp'.arg.mapping_id}
              stats == resp'.body
          IN  /\ DOMAIN stats = {"current", "expiring_soon", "expired", "archived", "total"}
              /\ \A st \in {"current", "expiring_soon", "expired", "archived"} :
                    stats[st] = Cardinality({e \in live : evidence[e].status = st})
              /\ stats["total"] = stats["current"] + stats["expiring_soon"]
                                    + stats["expired"] + stats["archived"]
              /\ stats["total"] = Cardinality(live)]_vars

(* a mapping with a current and an expired row *)
C18_Witness ==
    /\ resp.op = "get_evidence_stats" /\ resp.kind = "OK"
    /\ resp.body["current"] = 1
    /\ resp.body["expired"] = 1
    /\ resp.body["archived"] = 0
    /\ resp.body["total"] = 2
    /\ SoftDeleted = {}

(* the date that a given expiration date stands for, None when it is not  *)
(* YYYY-MM-DD                                                              *)
GivenDate(expiration_date) == strptime_date(Get(expiration_date))

(* C19: update_evidence on a live record with an expiration date that is   *)
(* not YYYY-MM-DD, or with a status that is none of the four freshness     *)
(* values, answers Validation and leaves every stored record as it was,    *)
(* whatever else the call supplied.                                        *)
C19_UpdateAllOrNothing ==
    [][(/\ resp' # resp
        /\ resp'.op = "update_evidence"
        /\ resp'.arg.evidence_id \in DOMAIN evidence \ SoftDeleted
        /\ \/ /\ resp'.arg.expiration_date # None
              /\ GivenDate(resp'.arg.expiration_date) = None
           \/ /\ resp'.arg.status # None
              /\ Get(resp'.arg.status)
                    \notin {"current", "expiring_soon", "expired", "archived"})
       => /\ resp'.kind = "Validation"
          /\ UNCHANGED <<evidence, blobs, mappings, systems>>]_vars

(* a good date with a bad status, refused: the record keeps no date *)
C19_Witness ==
    /\ resp.op = "update_evidence" /\ resp.kind = "Validation"
    /\ resp.arg.expiration_date = Some(date_2025_01_31)
    /\ resp.arg.status = Some("Expired")
    /\ evidence[resp.arg.evidence_id].expiration_date = None
    /\ evidence[resp.arg.evidence_id].status = "current"
    /\ \E e \in DOMAIN evidence : evidence[e].description = Some("d1")

(* the record as the call asks for it: each field that was supplied set to *)
(* the supplied value                                                      *)
Updated(row, update) ==
    [row EXCEPT !.description = IF update.description # None
                                THEN update.description ELSE @,
                !.expiration_date = IF update.expiration_date # None
                                    THEN GivenDate(update.expiration_date) ELSE @,
                !.status = IF update.status # None THEN Get(update.status) ELSE @]

(* C20 as claimed: a successful update_evidence sets each of description,  *)
(* expiration date and status that was supplied to the supplied value and  *)
(* changes nothing else, in that record or in any other.                   *)
C20_OnlySuppliedFieldsChange ==
    [][(resp' # resp /\ resp'.op = "update_evidence" /\ resp'.kind = "OK")
       => LET e == resp'.arg.evidence_id
          IN  evidence' = [evidence EXCEPT ![e] = Updated(@, resp'.arg)]]_vars

(* C20, amended: a successful update_evidence sets each of description,    *)
(* expiration date and status that was supplied to the supplied value,     *)
(* refreshes updated_at when one of them changes by that, and leaves every *)
(* other field of the record and every other record unchanged.             *)
C20_SuppliedFieldsAndUpdatedAt ==
    [][(resp' # resp /\ resp'.op = "update_evidence" /\ resp'.kind = "OK")
       => LET e == resp'.arg.evidence_id
              asked == Updated(evidence[e], resp'.arg)
          IN  /\ e \in DOMAIN evidence \ SoftDeleted
              /\ evidence' = [evidence EXCEPT ![e] =
                                 [asked EXCEPT !.updated_at =
                                     IF asked # evidence[e] THEN now ELSE @]]
              /\ UNCHANGED <<blobs, mappings, systems>>]_vars

(* a date and a status given a second after the upload, on a record whose  *)
(* description an earlier call had set; a second record is untouched       *)
C20_Witness ==
    /\ resp.op = "update_evidence" /\ resp.kind = "OK"
    /\ resp.arg.description = None
    /\ resp.arg.status = Some("expired")
    /\ evidence[resp.arg.evidence_id].description = Some("d1")
    /\ evidence[resp.arg.evidence_id].status = "expired"
    /\ evidence[resp.arg.evidence_id].expiration_date # None
    /\ evidence[resp.arg.evidence_id].updated_at = 1
    /\ \E e \in DOMAIN evidence : evidence[e].status = "current" /\ evidence[e].updated_at = 0

(* the ids of rows that a cascade removed: handed out, and no longer there *)
RemovedSystems == (1..(nextId.system - 1)) \ DOMAIN systems

RemovedMappings == (1..(nextId.mapping - 1)) \ DOMAIN mappings

RemovedEvidence == (1..(nextId.evidence - 1)) \ DOMAIN evidence

SystemRequests ==
    {"get_ai_system", "get_system_requirements", "get_system_compliance",
     "list_system_evidence", "delete_ai_system"}

MappingRequests ==
    {"update_requirement_status", "list_requirement_evidence", "get_evidence_stats",
     "upload_evidence"}

EvidenceRequests == {"get_evidence", "download_evidence", "update_evidence", "delete_evidence"}

(* C21: a successful delete_ai_system(s) leaves no system row, no mapping  *)
(* row and no evidence row of s, live or soft-deleted, and leaves the rows *)
(* of every other system as they were; from then on every request that     *)
(* names s, a former mapping of s or a former evidence record of s answers *)
(* NotFound.                                                               *)
C21_CascadeRemovesAll ==
    [][ /\ (resp' # resp /\ resp'.op = "delete_ai_system" /\ resp'.kind = "OK") =>
            LET s == resp'.arg.system_id
            IN  /\ s \in DOMAIN systems
                /\ systems' = Restrict(systems, DOMAIN systems \ {s})
                /\ mappings' = Restrict(mappings,
                                  {m \in DOMAIN mappings : mappings[m].ai_system_id # s})
                /\ evidence' = Restrict(evidence,
                                  {e \in DOMAIN evidence : evidence[e].ai_system_id # s})
                /\ \A m \in DOMAIN mappings' : mappings'[m].ai_system_id # s
                /\ \A e \in DOMAIN evidence' : evidence'[e].ai_system_id # s
        /\ (resp' # resp /\ resp'.op \in SystemRequests
                /\ resp'.arg.system_id \in RemovedSystems) => resp'.kind = "NotFound"
        /\ (resp' # resp /\ resp'.op \in MappingRequests
                /\ resp'.arg.mapping_id \in RemovedMappings) => resp'.kind = "NotFound"
        /\ (resp' # resp /\ resp'.op \in EvidenceRequests
                /\ resp'.arg.evidence_id \in RemovedEvidence) => resp'.kind = "NotFound"
      ]_vars

(* a system with an evidence record was removed next to a                  *)
(* system that keeps its mapping and its evidence, and a lookup of the     *)
(* removed record was answered                                             *)
C21_Witness ==
    /\ resp.op = "get_evidence" /\ resp.kind = "NotFound"
    /\ resp.arg.evidence_id \in RemovedEvidence
    /\ RemovedSystems # {} /\ RemovedMappings # {}
    /\ \E s \in DOMAIN systems : MappingsOf(s) # {}
                                  /\ \E e \in DOMAIN evidence : evidence[e].ai_system_id = s
(* the rows of system s: its own, its mappings and its evidence *)
MappingIdsOf(rows, s) == {m \in DOMAIN rows : rows[m].ai_system_id = s}

EvidenceIdsOf(rows, s) == {e \in DOMAIN rows : rows[e].ai_system_id = s}

(* C22: delete_ai_system is all-or-nothing.  A step of it that is not the  *)
(* commit, and so a call that fails after the evidence was deleted, after  *)
(* the mappings were deleted or at the commit, leaves the stored rows as   *)
(* they are; and no step of any request removes part of a system: a system *)
(* keeps its row, its mappings and its evidence, or loses them all at once *)
C22_CascadeAllOrNothing ==
    [][ /\ \A p \in Workers :
             ((req[p].op = "delete_ai_system" \/ req'[p].op = "delete_ai_system")
                 /\ req'[p] # req[p]
                 /\ ~(resp' # resp /\ resp'.op = "delete_ai_system" /\ resp'.kind = "OK"))
               => UNCHANGED <<systems, mappings, evidence>>
        /\ \A s \in DOMAIN systems :
              \/ /\ s \in DOMAIN systems'
                 /\ MappingIdsOf(mappings, s) \subseteq DOMAIN mappings'
                 /\ EvidenceIdsOf(evidence, s) \subseteq DOMAIN evidence'
              \/ /\ s \notin DOMAIN systems'
                 /\ MappingIdsOf(mappings', s) = {}
                 /\ EvidenceIdsOf(evidence', s) = {}
      ]_vars

(* a cascade deletion of a system that has mappings and evidence failed    *)
(* after it had deleted both                                               *)
C22_Witness ==
    /\ resp.op = "delete_ai_system" /\ resp.kind = "ServerError"
    /\ resp.arg.system_id \in DOMAIN systems
    /\ MappingIdsOf(mappings, resp.arg.system_id) # {}
    /\ EvidenceIdsOf(evidence, resp.arg.system_id) # {}
(* C23: when update_requirement_status calls on one mapping overlap, the   *)
(* stored status after a call has committed is the status that call asked  *)
(* for, whatever it asked for and whatever it had read.                    *)
C23_LastCommitWins ==
    [][ (resp' # resp /\ resp'.op = "update_requirement_status" /\ resp'.kind = "OK") =>
            mappings'[resp'.arg.mapping_id].status = resp'.arg.status
      ]_vars
(* C24: storage keys do not collide for distinct file names within one     *)
(* second: two evidence records of the same system and mapping (so of the  *)
(* same organization) that were uploaded in the same second under          *)
(* different file names, path separators included, have different keys.    *)
C24_DistinctNamesDistinctKeys ==
    \A e1 \in DOMAIN evidence, e2 \in DOMAIN evidence :
        (/\ evidence[e1].ai_system_id = evidence[e2].ai_system_id
         /\ evidence[e1].requirement_mapping_id = evidence[e2].requirement_mapping_id
         /\ evidence[e1].created_at[1] = evidence[e2].created_at[1]
         /\ evidence[e1].file_name # evidence[e2].file_name)
          => evidence[e1].s3_key # evidence[e2].s3_key
(* the catalog rows that carry entry i of the seed list *)
RowsOfEntry(i) ==
    {k \in 1..Len(requirements) : requirements[k].applies_to = SeedRequirements[i].applies_to}

(* C25: the catalog is populated once: whatever runs of the seed script    *)
(* have been made, one after the other or overlapping, a catalog that is   *)
(* not empty holds each entry of the seed list exactly once.               *)
C25_SeededOnce ==
    requirements # <<>> =>
        \A i \in 1..Len(SeedRequirements) : Cardinality(RowsOfEntry(i)) = 1
(* C26: the checks of an upload are applied in the stated order and the    *)
(* first one violated determines the error: a missing mapping answers      *)
(* NotFound whatever the file; a missing or disallowed extension is        *)
(* reported before a size violation; a malformed expiration date is        *)
(* reported as a validation error before any blob write is attempted,      *)
(* whether the bucket is up or down.                                       *)
C26_ChecksInOrder ==
    [][(resp' # resp /\ resp'.op = "upload_evidence")
       => LET upload == resp'.arg
              known == upload.mapping_id \in DOMAIN mappings
              badType == ExtensionOf(upload.filename) \notin AllowedTypes
              badSize == upload.file_size = 0 \/ upload.file_size > 25 * MiB
              badDate == /\ upload.expiration_date \notin {None, Some(<<>>)}
                         /\ GivenDate(upload.expiration_date) = None
          IN  /\ ~known
                   => /\ resp'.kind = "NotFound"
                      /\ resp'.body.detail = "Requirement mapping not found"
              /\ (known /\ badType)
                   => /\ resp'.kind = "Validation"
                      /\ resp'.body.detail \in {"File must have an extension",
                                                "File type not allowed"}
              /\ (known /\ ~badType /\ badSize)
                   => /\ resp'.kind = "Validation"
                      /\ resp'.body.detail \in {"File too large", "File is empty"}
              /\ (known /\ ~badType /\ ~badSize /\ badDate)
                   => /\ resp'.kind = "Validation"
                      /\ resp'.body.detail = "Invalid date format. Use YYYY-MM-DD"
                      /\ blobs' = blobs]_vars
(* what the status-update calls write on a mapping *)
Progress(mapping) ==
    [status |-> mapping.status, notes |-> mapping.notes, updated_by |-> mapping.updated_by]

EvidenceOperations ==
    {"upload_evidence", "update_evidence", "delete_evidence", "list_requirement_evidence",
     "list_system_evidence", "get_evidence", "get_evidence_stats", "download_evidence"}

(* C27: the status, notes and updated_by of a mapping change only in a     *)
(* step of update_requirement_status on that mapping's id: registration    *)
(* and deletion of another system and every evidence operation leave them  *)
(* as they are, and so the compliance summary of every system is the same  *)
(* before and after an evidence operation.                                 *)
C27_OnlyStatusUpdateWritesStatus ==
    [][ /\ \A m \in DOMAIN mappings :
              \/ m \notin DOMAIN mappings'
              \/ Progress(mappings'[m]) = Progress(mappings[m])
              \/ /\ resp' # resp
                 /\ resp'.op = "update_requirement_status"
                 /\ resp'.arg.mapping_id = m
        /\ \A m \in DOMAIN mappings \ DOMAIN mappings' :
              /\ resp'.op = "delete_ai_system"
              /\ resp'.arg.system_id = mappings[m].ai_system_id
        /\ (resp' # resp /\ resp'.op \in EvidenceOperations) =>
              /\ mappings' = mappings
              /\ \A s \in DOMAIN systems :
                    compliance_summary(mappings', s) = compliance_summary(mappings, s)
      ]_vars

(* an evidence record of a completed mapping was deleted, next to a second *)
(* system                                                                  *)
C27_Witness ==
    /\ resp.op = "delete_evidence" /\ resp.kind = "OK"
    /\ resp.arg.evidence_id \in DOMAIN evidence
    /\ LET m == evidence[resp.arg.evidence_id].requirement_mapping_id
       IN  /\ m \in DOMAIN mappings
           /\ Progress(mappings[m]) =
                 [status |-> "completed", notes |-> Some("n1"), updated_by |-> Some("u1")]
           /\ compliance_summary(mappings, mappings[m].ai_system_id).compliance_percentage
                 = 10000
    /\ Cardinality(DOMAIN systems) = 2
(* the systems whose registration has returned *)
Registered == {s \in DOMAIN systems :
                  \A p \in Workers : ~(req[p].op = "create_ai_system" /\ req[p].system_id = s)}

(* C28: the set of mappings of a system is fixed for the system's life:    *)
(* once create_ai_system has returned, no step adds a mapping to the       *)
(* system or removes one, but for delete_ai_system, which removes them all *)
(* together with the system; and mapping rows are created by               *)
(* create_ai_system only, for the system it registers.                     *)
C28_MappingSetFixed ==
    [][ /\ \A s \in Registered :
              IF s \in DOMAIN systems'
              THEN MappingIdsOf(mappings', s) = MappingIdsOf(mappings, s)
              ELSE /\ MappingIdsOf(mappings', s) = {}
                   /\ resp'.op = "delete_ai_system" /\ resp'.kind = "OK"
                   /\ resp'.arg.system_id = s
        /\ \A m \in DOMAIN mappings \ DOMAIN mappings' :
              mappings[m].ai_system_id \notin DOMAIN systems'
        /\ \A m \in DOMAIN mappings' \ DOMAIN mappings :
              /\ resp' # resp
              /\ resp'.op = "create_ai_system" /\ resp'.kind = "OK"
              /\ mappings'[m].ai_system_id = resp'.body.id
              /\ resp'.body.id \notin Registered
      ]_vars

(* one system was removed with its mapping while another, whose mapping    *)
(* was updated and holds evidence, keeps its mapping                       *)
C28_Witness ==
    /\ resp.op = "delete_ai_system" /\ resp.kind = "OK"
    /\ RemovedMappings # {}
    /\ \E s \in Registered :
          /\ MappingIdsOf(mappings, s) # {}
          /\ \A m \in MappingIdsOf(mappings, s) : mappings[m].status = "completed"
          /\ EvidenceIdsOf(evidence, s) # {}
(* C29: the freshness status of an evidence record changes only in a step  *)
(* of update_evidence on that record that supplies a status: the record is *)
(* current after its upload, with or without an expiration date, and no    *)
(* other step (an update that supplies a date or a description only, soft  *)
(* deletion, a read, a status update of its mapping, the clock) changes it *)
C29_FreshnessIsCallerTriggered ==
    [][ /\ \A e \in DOMAIN evidence' \ DOMAIN evidence :
              /\ resp'.op = "upload_evidence" /\ resp'.kind = "OK"
              /\ evidence'[e].status = "current"
        /\ \A e \in DOMAIN evidence \cap DOMAIN evidence' :
              evidence'[e].status # evidence[e].status =>
                  /\ resp' # resp
                  /\ resp'.op = "update_evidence" /\ resp'.kind = "OK"
                  /\ resp'.arg.evidence_id = e
                  /\ resp'.arg.status # None
                  /\ evidence'[e].status = Get(resp'.arg.status)
      ]_vars

(* a record uploaded with an expiration date, then given another date and  *)
(* soft-deleted a second later, is still current                           *)
C29_Witness ==
    /\ resp.op = "delete_evidence" /\ resp.kind = "OK"
    /\ now > 0
    /\ LET e == evidence[resp.arg.evidence_id]
       IN  /\ e.status = "current"
           /\ e.expiration_date \notin {None, Some([year |-> 2024, month |-> 2, day |-> 29])}
           /\ e.description = Some("d1")
           /\ e.deleted_at # None
           /\ mappings[e.requirement_mapping_id].status = "completed"
ReadOperations ==
    {"get_system_compliance", "get_system_requirements", "list_requirement_evidence",
     "list_system_evidence", "get_evidence", "get_evidence_stats", "download_evidence"}

(* C30: the reads (get_system_compliance, get_system_requirements, the two *)
(* evidence listings, get_evidence, get_evidence_stats, download_evidence) *)
(* leave the catalog, the systems, the mappings, the evidence rows and the *)
(* blobs as they are; and get_system_compliance answers from the mappings  *)
(* as they are stored when it is called, so after a committed status       *)
(* update it counts the new status.                                        *)
C30_ReadsArePure ==
    [][ /\ (resp' # resp /\ resp'.op \in ReadOperations) =>
              UNCHANGED <<requirements, systems, mappings, evidence, blobs, nextId, hist>>
        /\ (resp' # resp /\ resp'.op = "get_system_compliance" /\ resp'.kind = "OK") =>
              LET s == resp'.arg.system_id
              IN  /\ resp'.body.total_requirements = Cardinality(MappingsOf(s))
                  /\ MappingsOf(s) # {} =>
                        \A status \in ComplianceStatus :
                            resp'.body.status_breakdown[status] = CountOf(s, status)
      ]_vars

(* the summary asked for after a status update and an upload counts the    *)
(* completed mapping                                                       *)
C30_Witness ==
    /\ resp.op = "get_system_compliance" /\ resp.kind = "OK"
    /\ resp.body.total_requirements = 1
    /\ resp.body.status_breakdown["completed"] = 1
    /\ resp.arg.system_id \in DOMAIN systems
    /\ \A m \in MappingsOf(resp.arg.system_id) :
          hist[m].status = Some("completed") /\ mappings[m].status = "completed"
    /\ EvidenceIdsOf(evidence, resp.arg.system_id) # {}
    /\ blobs # <<>>
(* C31: under every interleaving of upload_evidence and delete_ai_system   *)
(* on one system, every evidence row references a system and a mapping     *)
(* that exist: an upload that checked the mapping before the cascade       *)
(* committed leaves no row behind for the deleted system.                  *)
C31_ReferentialIntegrity ==
    \A e \in DOMAIN evidence :
        /\ evidence[e].ai_system_id \in DOMAIN systems
        /\ evidence[e].requirement_mapping_id \in DOMAIN mappings
(* C32: when delete_evidence calls on one live record overlap, each having *)
(* looked the record up before any commits, at most one of them answers    *)
(* with success: a call that succeeds commits on a record that is still    *)
(* live, so the soft-delete timestamp is written once.                     *)
C32_DeleteSucceedsOnce ==
    [][ \A p \in Workers :
           (/\ At(p, "delete_evidence", "commit")
            /\ req'[p] = Idle
            /\ resp'.op = "delete_evidence" /\ resp'.kind = "OK")
             => /\ req[p].evidence_id \in DOMAIN evidence
                /\ evidence[req[p].evidence_id].deleted_at = None
      ]_vars

(* what a soft deletion is to freeze *)
Metadata(e) ==
    [description |-> e.description, expiration_date |-> e.expiration_date,
     status |-> e.status]

(* C33: soft deletion is permanent and freezes the record: once the        *)
(* soft-delete timestamp of a record is set, no step of any request, under *)
(* any interleaving, resets it to null or changes the record's             *)
(* description, expiration date or status; the row stays so until a        *)
(* cascade delete of its system removes it.                                *)
C33_SoftDeletedIsFrozen ==
    [][ \A e \in DOMAIN evidence :
           evidence[e].deleted_at # None =>
              IF e \in DOMAIN evidence'
              THEN /\ evidence'[e].deleted_at # None
                   /\ Metadata(evidence'[e]) = Metadata(evidence[e])
              ELSE resp'.op = "delete_ai_system" /\ resp'.kind = "OK"
      ]_vars
(* C34: no two evidence rows share a storage key: every upload writes its  *)
(* blob under a key that no other evidence row carries, also when two      *)
(* uploads to one mapping use the same file name within the same second.   *)
C34_UniqueStorageKeys ==
    \A e1 \in DOMAIN evidence, e2 \in DOMAIN evidence :
        e1 # e2 => evidence[e1].s3_key # evidence[e2].s3_key
====
